---- MODULE Spec2Model ----
(***************************************************************************)
(* A model of load-reth: the RPC admission gate (src/src/rpc/             *)
(* backpressure.rs), the payload attribute checks (src/src/engine/        *)
(* payload.rs), the payload building loop (src/src/engine/builder.rs),    *)
(* the checks of inbound engine messages (src/src/engine/validator.rs,    *)
(* src/src/engine/rpc.rs) and the conversions of a built payload to its   *)
(* wire envelopes (src/src/engine/payload.rs).                            *)
(* Each subsystem has its own specification over the shared variables:    *)
(* SpecGate, SpecBatch, SpecAttrs, SpecBuild, SpecInbound and SpecConvert.*)
(***************************************************************************)
EXTENDS Integers, Naturals, Sequences, FiniteSets, TLC

\* ---------------------------------------------------------------- bounds

\* The number of RPC request futures that may be in progress at once.
NumRequests == 2
\* The number of calls made in one behaviour (a finished future's slot is reused).
MaxCalls == 3
\* The largest configured per-method limit (0 disables the guard).
MaxLimit == 2
\* The largest timestamp of the attribute checks' inputs.
MaxTimestamp == 2
\* The number of candidates the transaction source offers to one build at most.
MaxCandidates == 2
\* The largest gas limit of a candidate; the block gas limit is one more.
MaxTxGas == 2
\* A blob cap of the fork schedule that is below the network's.
SmallBlobCap == 2
\* The largest number of entries of a batch.
MaxBatch == 2
\* The largest number of blobs of one sidecar of a built payload.
MaxSidecarBlobs == 2

\* ------------------------------------------------------------- variables

VARIABLES
    \* -- rpc/backpressure.rs
    limit,       \* LoadRpcBackpressureConfig: GuardedMethod -> limit
    inflight,    \* MethodGate.inflight (AtomicUsize) of each guarded method
    gauge,       \* LoadRpcBackpressureMetrics.inflight_* (last value set)
    accepted,    \* LoadRpcBackpressureMetrics.accepted_*
    rejected,    \* LoadRpcBackpressureMetrics.rejected_*
    req,         \* the request futures of LoadRpcBackpressureService::call
    calls,       \* the number of calls made so far
    \* -- engine/payload.rs
    rpcAttrs,    \* the inbound LoadPayloadAttributes and the version of the call
    parentTs,    \* the parent header's timestamp
    attrs,       \* the LoadPayloadBuilderAttributes constructed, or None
    attrsBy,     \* the constructor that made attrs: "try_new" or "new"
    ctorResult,  \* what try_new returned
    validation   \* what validate_payload_attributes returned

VARIABLES
    \* -- engine/builder.rs: one run of default_load_payload
    env,                            \* its arguments and what the chain spec answers
    seal_args,                      \* the arguments read when the loop has ended
    bpc,                            \* where the build is
    cancel,                         \* the cancellation signal of the job
    cancelled_at,                   \* how many candidates had been pulled when it was raised
    cur,                            \* the gas limit of the candidate being examined
    offered,                        \* the candidates pulled from best_txs so far
    skip_blobs,                     \* best_txs.skip_blobs() was called
    marks,                          \* the calls of best_txs.mark_invalid
    executed,                       \* the transactions the block builder executed
    max_blob_count,
    cumulative_gas_used,
    block_blob_count,
    block_transactions_rlp_length,
    total_fees,
    blob_sidecars,
    outcome                         \* what default_load_payload returned

VARIABLES
    \* -- rpc/backpressure.rs: one run of LoadRpcBackpressureService::batch
    batch,            \* req: the entries of the batch
    batch_pc,         \* where the batch future is
    processed,        \* what each entry taken from the batch so far produced
    batch_rp,         \* the responses appended to the BatchResponseBuilder
    got_notification,
    batch_out         \* what batch returned

VARIABLES
    \* -- engine/validator.rs and engine/rpc.rs: one inbound engine message
    submission,         \* the message, the chain spec and what the upstream answers
    validator_result,   \* what validate_version_specific_fields returned
    new_payload_result, \* what new_payload_v1 .. new_payload_v4 returned
    \* -- engine/payload.rs: one LoadBuiltPayload and its conversions
    built,              \* inner.sidecars() of the LoadBuiltPayload
    envelope            \* what the last TryFrom / From conversion returned

VARIABLES
    \* -- chainspec/mod.rs: one derivation of the chain specification
    genesis,            \* the genesis description given to from_genesis
    chain_spec,         \* what from_genesis returned, or None
    blob_query          \* the last answer of blob_params_at_timestamp, or None

VARIABLES
    \* -- engine/rpc.rs: one blob retrieval call
    blob_request,       \* the call and what its surroundings answer
    pool_queries,       \* the calls of pool.get_blobs_for_versioned_hashes_v*
    blob_metrics,       \* LoadEngineRpcMetrics: get_blobs hits and misses
    get_blobs_result    \* what the call returned, or None

VARIABLES
    \* -- engine/builder.rs: the observed build
    last_tx             \* the candidate the loop body examined last, or None

gateVars == <<limit, inflight, gauge, accepted, rejected, req, calls>>

inboundVars == <<submission, validator_result, new_payload_result>>

convertVars == <<built, envelope>>

genesisVars == <<genesis, chain_spec, blob_query>>

blobsVars == <<blob_request, pool_queries, blob_metrics, get_blobs_result>>

examineVars == <<last_tx>>

batchVars == <<batch, batch_pc, processed, batch_rp, got_notification, batch_out>>

buildVars ==
    <<env, seal_args, bpc, cancel, cancelled_at, cur, offered, skip_blobs, marks, executed, max_blob_count,
      cumulative_gas_used, block_blob_count, block_transactions_rlp_length,
      total_fees, blob_sidecars, outcome>>

attrVars == <<rpcAttrs, parentTs, attrs, attrsBy, ctorResult, validation>>

vars == <<gateVars, attrVars, buildVars, batchVars, inboundVars, convertVars, genesisVars, blobsVars, examineVars>>

\* What the actions of one subsystem leave alone.
notGate == <<attrVars, buildVars, batchVars, inboundVars, convertVars, genesisVars, blobsVars, examineVars>>
notAttrs == <<gateVars, buildVars, batchVars, inboundVars, convertVars, genesisVars, blobsVars, examineVars>>
notBuild == <<gateVars, attrVars, batchVars, inboundVars, convertVars, genesisVars, blobsVars, examineVars>>
notBatch == <<attrVars, buildVars, inboundVars, convertVars, genesisVars, blobsVars, examineVars>>
notInbound == <<gateVars, attrVars, buildVars, batchVars, convertVars, genesisVars, blobsVars, examineVars>>
notConvert == <<gateVars, attrVars, buildVars, batchVars, inboundVars, genesisVars, blobsVars, examineVars>>
notGenesis == <<gateVars, attrVars, buildVars, batchVars, inboundVars, convertVars, blobsVars, examineVars>>
notBlobs == <<gateVars, attrVars, buildVars, batchVars, inboundVars, convertVars, genesisVars, examineVars>>
notExamine == <<gateVars, attrVars, batchVars, inboundVars, convertVars, genesisVars, blobsVars>>

None == "None"

\* ===================================================================
\* rpc/backpressure.rs
\* ===================================================================

\* usize, narrowed to 16 bits: what matters is that fetch_sub wraps at 0.
UsizeMax == 2^16 - 1

GuardedMethod == {"SendRawTransaction", "GetTransactionCount", "SendRawTransactionSync"}

\* The method names the modelled requests carry: two of the guarded names
\* (the third goes through the same code) and one that is not guarded.
RpcMethodNames ==
    {"eth_sendRawTransaction", "eth_getTransactionCount", "debug_traceTransaction"}

from_rpc_method(method) ==
    CASE method = "eth_sendRawTransaction" -> "SendRawTransaction"
      [] method = "eth_getTransactionCount" -> "GetTransactionCount"
      [] method = "eth_sendRawTransactionSync" -> "SendRawTransactionSync"
      [] OTHER -> None

limit_for(method) == limit[method]

\* A classification that guards a method whatever its limit.
classify_method_any_limit(method_name) == from_rpc_method(method_name)

classify_method(method_name) ==
    LET method == from_rpc_method(method_name)
    IN  IF method = None THEN None
        ELSE IF limit_for(method) > 0 THEN method ELSE None

\* A single gate shared by all the methods.
gate_shared(method) == "SendRawTransaction"

\* LoadRpcBackpressureState::gate: the MethodGate of a method (its limit and
\* its counter), named by the method.
gate(method) == method

\* GuardedMethod::rpc_method_name
rpc_method_name(method) ==
    CASE method = "SendRawTransaction" -> "eth_sendRawTransaction"
      [] method = "GetTransactionCount" -> "eth_getTransactionCount"
      [] method = "SendRawTransactionSync" -> "eth_sendRawTransactionSync"

\* RPC_BACKPRESSURE_OVERLOAD_CODE
RPC_BACKPRESSURE_OVERLOAD_CODE == -32005

\* An overload error that reports a default instead of the configured limit.
overload_response_default(method) ==
    [code |-> RPC_BACKPRESSURE_OVERLOAD_CODE,
     data |-> [method |-> rpc_method_name(method), limit |-> 256]]

\* overload_response: the error object of the response (its id is the request's).
overload_response(method) ==
    [code |-> RPC_BACKPRESSURE_OVERLOAD_CODE,
     data |-> [method |-> rpc_method_name(method), limit |-> limit_for(method)]]

saturating_sub(a, b) == IF a >= b THEN a - b ELSE 0

wrapping_sub(a, b) == (a - b) % (UsizeMax + 1)

Requests == 1..NumRequests

IdleRequest ==
    [pc |-> "idle", name |-> None, method |-> None, seen |-> 0,
     permit |-> FALSE, prev |-> 0, stored |-> FALSE,
     admitted |-> FALSE, releases |-> 0, outcome |-> None,
     inner_called |-> FALSE, error |-> <<>>]

\* DEFAULT_SEND_RAW_TX_SYNC_LIMIT
DefaultSendRawTxSyncLimit == 256

\* The configurations: the limits of the two methods the requests name range
\* over 0..MaxLimit, the third keeps its default.
Configs ==
    {c \in [GuardedMethod -> 0..MaxLimit \cup {DefaultSendRawTxSyncLimit}] :
        /\ c["SendRawTransaction"] <= MaxLimit
        /\ c["GetTransactionCount"] <= MaxLimit
        /\ c["SendRawTransactionSync"] = DefaultSendRawTxSyncLimit}

InitGate ==
    /\ limit \in Configs
    /\ inflight = [m \in GuardedMethod |-> 0]
    /\ gauge = [m \in GuardedMethod |-> 0]
    /\ accepted = [m \in GuardedMethod |-> 0]
    /\ rejected = [m \in GuardedMethod |-> 0]
    /\ req = [r \in Requests |-> IdleRequest]
    /\ calls = 0

\* The future of call at its first poll: classify_method decides whether it
\* goes to try_acquire or straight to the inner service.
NewRequest(name) ==
    LET method == classify_method(name)
    IN  [IdleRequest EXCEPT !.name = name,
                            !.method = method,
                            !.inner_called = (method = None),
                            !.pc = IF method = None THEN "inner" ELSE "load"]

\* call: the future is polled for the first time; classify_method decides
\* whether the request goes through the gate (lines 154-158, 164).
\* A new future takes a free slot: one never used (the slots are interchangeable,
\* so the lowest of them) or one whose future has ended.
Call(r, name) ==
    /\ calls < MaxCalls
    /\ \/ req[r].pc = "done"
       \/ /\ req[r].pc = "idle"
          /\ \A q \in Requests : q < r => req[q].pc # "idle"
    /\ req' = [req EXCEPT ![r] = NewRequest(name)]
    /\ calls' = calls + 1
    /\ UNCHANGED <<notGate, limit, inflight, gauge, accepted, rejected>>

\* A test that rejects one request too early.
AcquireLoad_early(r) ==
    /\ req[r].pc = "load"
    /\ LET m == req[r].method
           seen == inflight[gate(m)]
       IN  IF seen + 1 >= limit[gate(m)]
           THEN /\ rejected' = [rejected EXCEPT ![m] = @ + 1]
                /\ req' = [req EXCEPT ![r].outcome = "overload",
                                      ![r].error = <<overload_response(m)>>,
                                      ![r].pc = "done"]
           ELSE /\ req' = [req EXCEPT ![r].seen = seen, ![r].pc = "cas"]
                /\ UNCHANGED rejected
    /\ UNCHANGED <<notGate, limit, inflight, gauge, accepted, calls>>

\* try_acquire: gate.inflight.load and the test against the limit; at or
\* above the limit the request is rejected and call returns overload_response.
AcquireLoad(r) ==
    /\ req[r].pc = "load"
    /\ LET m == req[r].method
           seen == inflight[gate(m)]
       IN  IF seen >= limit[gate(m)]
           THEN /\ rejected' = [rejected EXCEPT ![m] = @ + 1]
                /\ req' = [req EXCEPT ![r].outcome = "overload",
                                      ![r].error = <<overload_response(m)>>,
                                      ![r].pc = "done"]
           ELSE /\ req' = [req EXCEPT ![r].seen = seen, ![r].pc = "cas"]
                /\ UNCHANGED rejected
    /\ UNCHANGED <<notGate, limit, inflight, gauge, accepted, calls>>

\* A counter incremented with fetch_add after the test, whatever it holds by then.
CasSucceeds_fetch_add(r) ==
    LET m == req[r].method
    IN  /\ inflight' = [inflight EXCEPT ![gate(m)] = @ + 1]
        /\ accepted' = [accepted EXCEPT ![m] = @ + 1]
        /\ req' = [req EXCEPT ![r].permit = TRUE,
                              ![r].admitted = TRUE,
                              ![r].pc = "record"]
        /\ UNCHANGED <<notGate, limit, gauge, rejected, calls>>

\* A counter written with a plain store of the value read plus one.
CasSucceeds_store(r) ==
    LET m == req[r].method
    IN  /\ inflight' = [inflight EXCEPT ![gate(m)] = req[r].seen + 1]
        /\ accepted' = [accepted EXCEPT ![m] = @ + 1]
        /\ req' = [req EXCEPT ![r].permit = TRUE,
                              ![r].admitted = TRUE,
                              ![r].pc = "record"]
        /\ UNCHANGED <<notGate, limit, gauge, rejected, calls>>

\* A permit granted without counting it.
CasSucceeds_uncounted(r) ==
    LET m == req[r].method
    IN  /\ inflight[gate(m)] = req[r].seen
        /\ accepted' = [accepted EXCEPT ![m] = @ + 1]
        /\ req' = [req EXCEPT ![r].permit = TRUE,
                              ![r].admitted = TRUE,
                              ![r].pc = "record"]
        /\ UNCHANGED <<notGate, limit, inflight, gauge, rejected, calls>>

\* The compare-exchange of try_acquire when the counter still holds the value read.
CasSucceeds(r) ==
    LET m == req[r].method
    IN  /\ inflight[gate(m)] = req[r].seen
        /\ inflight' = [inflight EXCEPT ![gate(m)] = req[r].seen + 1]
        /\ accepted' = [accepted EXCEPT ![m] = @ + 1]
        /\ req' = [req EXCEPT ![r].permit = TRUE,
                              ![r].admitted = TRUE,
                              ![r].pc = "record"]
        /\ UNCHANGED <<notGate, limit, gauge, rejected, calls>>

\* The compare-exchange fails: another request changed the counter, or
\* compare_exchange_weak failed spuriously; try_acquire loops.
CasFails(r) ==
    /\ req' = [req EXCEPT ![r].seen = 0, ![r].pc = "load"]
    /\ UNCHANGED <<notGate, limit, inflight, gauge, accepted, rejected, calls>>

AcquireCas(r) ==
    /\ req[r].pc = "cas"
    /\ \/ CasSucceeds(r)
       \/ CasFails(r)

\* try_acquire after a successful compare-exchange: record_inflight(inflight + 1),
\* then the permit is returned and call awaits the inner service.
AcquireRecord(r) ==
    /\ req[r].pc = "record"
    /\ gauge' = [gauge EXCEPT ![req[r].method] = req[r].seen + 1]
    /\ req' = [req EXCEPT ![r].seen = 0, ![r].inner_called = TRUE, ![r].pc = "inner"]
    /\ UNCHANGED <<notGate, limit, inflight, accepted, rejected, calls>>

\* A permit that is forgotten instead of dropped.
AfterInner_forget(r) == "done"

\* Where a request goes when call's future ends: the permit, if it holds one,
\* is dropped (InflightPermit::drop runs release).
AfterInner(r) == IF req[r].permit THEN "release" ELSE "done"

\* inner.call(req).await returns a response (success or application error).
InnerReturns(r, response) ==
    /\ req[r].pc = "inner"
    /\ req' = [req EXCEPT ![r].outcome = response, ![r].pc = AfterInner(r)]
    /\ UNCHANGED <<notGate, limit, inflight, gauge, accepted, rejected, calls>>

\* The future is dropped at its await point (the client went away), or the
\* inner call unwinds: the locals of the async block are dropped.
InnerDropped(r, cause) ==
    /\ req[r].pc = "inner"
    /\ req' = [req EXCEPT ![r].outcome = cause, ![r].pc = AfterInner(r)]
    /\ UNCHANGED <<notGate, limit, inflight, gauge, accepted, rejected, calls>>

\* release: gate.inflight.fetch_sub(1), which returns the previous value and wraps.
ReleaseFetchSub(r) ==
    /\ req[r].pc = "release"
    /\ LET m == req[r].method
       IN  /\ inflight' = [inflight EXCEPT ![gate(m)] = wrapping_sub(@, 1)]
           /\ req' = [req EXCEPT ![r].prev = inflight[gate(m)],
                                 ![r].permit = FALSE,
                                 ![r].releases = @ + 1,
                                 ![r].pc = "released"]
    /\ UNCHANGED <<notGate, limit, gauge, accepted, rejected, calls>>

\* release after fetch_sub: when the previous value was 0 the counter is
\* stored back to 0; then record_inflight(prev.saturating_sub(1)).
ReleaseRecord(r) ==
    /\ req[r].pc = "released"
    /\ LET m == req[r].method
       IN  IF req[r].prev = 0 /\ ~req[r].stored
           THEN /\ inflight' = [inflight EXCEPT ![gate(m)] = 0]
                /\ req' = [req EXCEPT ![r].stored = TRUE]
                /\ UNCHANGED gauge
           ELSE /\ gauge' = [gauge EXCEPT ![m] = saturating_sub(req[r].prev, 1)]
                /\ req' = [req EXCEPT ![r].prev = 0, ![r].stored = FALSE, ![r].pc = "done"]
                /\ UNCHANGED inflight
    /\ UNCHANGED <<notGate, limit, accepted, rejected, calls>>

InnerResponses == {"success", "error"}
\* An unwinding inner call drops the locals as a dropped future does.
DropCauses == {"cancelled"}

GateStep ==
    \E r \in Requests :
        \/ \E name \in RpcMethodNames : Call(r, name)
        \/ AcquireLoad(r)
        \/ AcquireCas(r)
        \/ AcquireRecord(r)
        \/ \E response \in InnerResponses : InnerReturns(r, response)
        \/ \E cause \in DropCauses : InnerDropped(r, cause)
        \/ ReleaseFetchSub(r)
        \/ ReleaseRecord(r)


\* -------------------------------------------------------------------
\* LoadRpcBackpressureService::batch
\* -------------------------------------------------------------------

\* The entries of a batch: a call, a notification, or an entry that did not
\* parse (Err).
\* The method names of a batch's calls and of the request beside it: one of
\* the guarded names and one that is not guarded.
BatchMethodNames == {"eth_getTransactionCount", "debug_traceTransaction"}

BatchEntries ==
    [kind : {"call"}, name : BatchMethodNames]
        \cup {[kind |-> "notification", name |-> None],
              [kind |-> "invalid", name |-> None]}

Batches == UNION {[1..n -> BatchEntries] : n \in 1..MaxBatch}

\* The request slot in which the batch runs this.call(call).
BatchSlot == NumRequests

\* A scan that looks at the first entry only.
has_guarded_call_first(b) ==
    b[1].kind = "call" /\ classify_method(b[1].name) # None

\* Lines 171-177: some entry is a call of a guarded method.
has_guarded_call(b) ==
    \E i \in 1..Len(b) : b[i].kind = "call" /\ classify_method(b[i].name) # None

InitBatch ==
    /\ batch \in Batches
    /\ batch_pc = "start"
    /\ processed = <<>>
    /\ batch_rp = <<>>
    /\ got_notification = FALSE
    /\ batch_out = None

\* The batch's variables while no batch runs.
IdleBatch ==
    /\ batch = <<>>
    /\ batch_pc = "done"
    /\ processed = <<>>
    /\ batch_rp = <<>>
    /\ got_notification = FALSE
    /\ batch_out = None

\* batch returns.
BatchReturn(result) ==
    /\ batch_out' = result
    /\ batch_pc' = "done"

\* Lines 171-180: without a guarded call the batch goes whole to inner.batch.
BatchStart ==
    /\ batch_pc = "start"
    /\ IF ~has_guarded_call(batch)
       THEN BatchReturn("forwarded")
       ELSE /\ batch_pc' = "loop"
            /\ UNCHANGED batch_out
    /\ UNCHANGED <<notBatch, gateVars, batch, processed, batch_rp, got_notification>>

\* batch_rp.append(rp) for the entry that produced rp: the builder takes the
\* response, or refuses it because the batch response would pass
\* batch_response_limit_bytes, and batch returns that error.
BatchAppend(rp, fits) ==
    /\ processed' = Append(processed, rp)
    /\ IF fits
       THEN /\ batch_rp' = Append(batch_rp, rp)
            /\ batch_pc' = "loop"
            /\ UNCHANGED batch_out
       ELSE /\ BatchReturn("too_big")
            /\ UNCHANGED batch_rp

\* Lines 185-205: the next entry is taken from the batch. A call starts
\* this.call(call); a notification goes to the inner service; an entry that
\* did not parse gets an error response.
BatchEntry ==
    /\ batch_pc = "loop"
    /\ Len(processed) < Len(batch)
    /\ LET entry == batch[Len(processed) + 1]
       IN  CASE entry.kind = "call" ->
                  /\ req' = [req EXCEPT ![BatchSlot] = NewRequest(entry.name)]
                  /\ batch_pc' = "call"
                  /\ UNCHANGED <<processed, batch_rp, got_notification, batch_out>>
             [] entry.kind = "notification" ->
                  /\ got_notification' = TRUE
                  /\ processed' = Append(processed, "notified")
                  /\ UNCHANGED <<req, batch_pc, batch_rp, batch_out>>
             [] entry.kind = "invalid" ->
                  /\ \E fits \in BOOLEAN : BatchAppend("invalid", fits)
                  /\ UNCHANGED <<req, got_notification>>
    /\ UNCHANGED <<notBatch, limit, inflight, gauge, accepted, rejected, calls, batch>>

\* Lines 188-192: this.call(call).await has ended: its response is appended.
\* When the call's future was dropped, so was the batch's.
BatchCallEnds ==
    /\ batch_pc = "call"
    /\ req[BatchSlot].pc = "done"
    /\ IF req[BatchSlot].outcome = "cancelled"
       THEN /\ BatchReturn("dropped")
            /\ UNCHANGED <<processed, batch_rp>>
       ELSE \E fits \in BOOLEAN : BatchAppend(req[BatchSlot].outcome, fits)
    /\ UNCHANGED <<notBatch, gateVars, batch, got_notification>>

\* Lines 208-212: every entry was taken.
BatchFinish ==
    /\ batch_pc = "loop"
    /\ Len(processed) = Len(batch)
    /\ BatchReturn(IF batch_rp = <<>> /\ got_notification THEN "notification" ELSE "batch")
    /\ UNCHANGED <<notBatch, gateVars, batch, processed, batch_rp, got_notification>>

BatchStep == BatchStart \/ BatchEntry \/ BatchCallEnds \/ BatchFinish

\* One single request arrives beside the batch.
RivalCall ==
    \E r \in Requests \ {BatchSlot}, name \in BatchMethodNames :
        /\ calls = 0
        /\ Call(r, name)

\* The steps of the call futures, of the batch's and of the single request's.
CallProgress ==
    \E r \in Requests :
        \/ AcquireLoad(r)
        \/ AcquireCas(r)
        \/ AcquireRecord(r)
        \/ \E response \in InnerResponses : InnerReturns(r, response)
        \/ \E cause \in DropCauses : InnerDropped(r, cause)
        \/ ReleaseFetchSub(r)
        \/ ReleaseRecord(r)


\* ===================================================================
\* engine/payload.rs: payload attributes
\* ===================================================================

\* The length of a B256, and of LOAD_PREVRANDAO.
B256Len == 32

\* LOAD_PREVRANDAO: 32 bytes, all 0 but the last, which is 1.
LOAD_PREVRANDAO == [i \in 1..B256Len |-> IF i = B256Len THEN 1 ELSE 0]

\* B256::ZERO
B256Zero == [i \in 1..B256Len |-> 0]

\* The randomness values of the inputs: the constant, zero, the constant with
\* its bytes reversed, a value that differs from the constant in one high
\* byte only, one that differs in the last byte only, and all bytes 0xff.
B256Values ==
    {LOAD_PREVRANDAO,
     B256Zero,
     [i \in 1..B256Len |-> IF i = 1 THEN 1 ELSE 0],
     [i \in 1..B256Len |-> IF i \in {1, B256Len} THEN 1 ELSE 0],
     [i \in 1..B256Len |-> IF i = B256Len THEN 2 ELSE 0],
     [i \in 1..B256Len |-> 255]}

\* Results are strings: "Ok" or the name of the error.
Ok == "Ok"
IsErr(result) == result \notin {None, Ok}

\* Option<T> of a structured value: <<>> is None, <<x>> is Some(x).
NoneOpt == <<>>
Some(x) == <<x>>

\* validate_prev_randao: prev_randao.as_slice() == LOAD_PREVRANDAO, byte by byte.
validate_prev_randao_last_byte(prev_randao) ==
    IF prev_randao[B256Len] = LOAD_PREVRANDAO[B256Len] THEN Ok ELSE "prev_randao"

validate_prev_randao(prev_randao) ==
    IF \A i \in 1..B256Len : prev_randao[i] = LOAD_PREVRANDAO[i]
    THEN Ok
    ELSE "prev_randao"

\* EthPayloadBuilderAttributes::try_new, which is infallible: the inner
\* attributes take the fields of the request; absent withdrawals become empty.
EthPayloadBuilderAttributes(parent, rpc) ==
    [parent |-> parent,
     timestamp |-> rpc.timestamp,
     prev_randao |-> rpc.prev_randao,
     withdrawals |-> IF rpc.withdrawals = NoneOpt THEN <<>> ELSE rpc.withdrawals[1],
     parent_beacon_block_root |-> rpc.parent_beacon_block_root]

\* LoadPayloadBuilderAttributes::new: no check.
LoadPayloadBuilderAttributes_new(inner) == inner

\* LoadPayloadBuilderAttributes::try_new: [result, value].
try_new(parent, rpc_payload_attributes, version) ==
    LET inner == EthPayloadBuilderAttributes(parent, rpc_payload_attributes)
        checked == validate_prev_randao(inner.prev_randao)
    IN  IF checked # Ok
        THEN [result |-> "InvalidPrevRandao", value |-> NoneOpt]
        ELSE [result |-> Ok, value |-> Some(LoadPayloadBuilderAttributes_new(inner))]

\* A validation of the randomness alone.
validate_payload_attributes_randao_only(parent_timestamp, a) ==
    IF validate_prev_randao(a.prev_randao) # Ok THEN "InvalidPrevRandao" ELSE Ok

\* validate_payload_attributes
validate_payload_attributes_lt(parent_timestamp, a) ==
    IF validate_prev_randao(a.prev_randao) # Ok THEN "InvalidPrevRandao"
    ELSE IF a.timestamp < parent_timestamp THEN "InvalidTimestamp"
    ELSE Ok

validate_payload_attributes(parent_timestamp, a) ==
    IF validate_prev_randao(a.prev_randao) # Ok THEN "InvalidPrevRandao"
    ELSE IF a.timestamp <= parent_timestamp THEN "InvalidTimestamp"
    ELSE Ok

Timestamps == 0..MaxTimestamp

\* The inbound requests: engine_forkchoiceUpdated V1..V3 with its attributes.
RpcAttributes ==
    [timestamp : Timestamps,
     prev_randao : B256Values,
     withdrawals : {NoneOpt, Some(<<>>)},
     parent_beacon_block_root : {None, "root"},
     version : 1..3]

InitAttrs ==
    /\ rpcAttrs \in {Some(a) : a \in RpcAttributes}
    /\ parentTs \in Timestamps
    /\ attrs = NoneOpt
    /\ attrsBy = None
    /\ ctorResult = None
    /\ validation = None

\* The attributes are constructed from the request with try_new.
TryNew ==
    /\ attrsBy = None
    /\ LET made == try_new("parent", rpcAttrs[1], rpcAttrs[1].version)
       IN  /\ ctorResult' = made.result
           /\ attrs' = made.value
    /\ attrsBy' = "try_new"
    /\ UNCHANGED <<notAttrs, rpcAttrs, parentTs, validation>>

\* The attributes are constructed with new, from the same fields.
New ==
    /\ attrsBy = None
    /\ attrs' = Some(LoadPayloadBuilderAttributes_new(EthPayloadBuilderAttributes("parent", rpcAttrs[1])))
    /\ attrsBy' = "new"
    /\ UNCHANGED <<notAttrs, rpcAttrs, parentTs, ctorResult, validation>>

\* validate_payload_attributes on constructed attributes.
Validate ==
    /\ attrs # NoneOpt
    /\ validation = None
    /\ validation' = validate_payload_attributes(parentTs, attrs[1])
    /\ UNCHANGED <<notAttrs, rpcAttrs, parentTs, attrs, attrsBy, ctorResult>>

AttrsStep == TryNew \/ New \/ Validate

\* ===================================================================
\* engine/builder.rs: default_load_payload
\* ===================================================================

\* chainspec: LOAD_MAX_BLOB_COUNT
LOAD_MAX_BLOB_COUNT == 1024

\* reth_consensus_common::validation::MAX_RLP_BLOCK_SIZE
MAX_RLP_BLOCK_SIZE == 8388608

Min(a, b) == IF a <= b THEN a ELSE b

\* A cap that takes the schedule's value as it is.
compute_load_blob_cap_unclamped(blob_params) ==
    IF blob_params = NoneOpt THEN LOAD_MAX_BLOB_COUNT ELSE blob_params[1]

\* compute_load_blob_cap: blob_params is what blob_params_at_timestamp returns
\* (an Option of the schedule's max_blob_count).
compute_load_blob_cap(blob_params) ==
    Min(IF blob_params = NoneOpt THEN LOAD_MAX_BLOB_COUNT ELSE blob_params[1],
        LOAD_MAX_BLOB_COUNT)

\* A comparison that lets a tie replace the best payload.
is_better_payload_or_equal(best_payload, new_fees) ==
    IF best_payload = NoneOpt THEN TRUE ELSE new_fees >= best_payload[1]

\* is_better_payload (reth_basic_payload_builder): strictly more fees than
\* the best payload, or no best payload.
is_better_payload(best_payload, new_fees) ==
    IF best_payload = NoneOpt THEN TRUE ELSE new_fees > best_payload[1]

\* A loop that never sees the signal.
is_cancelled_never == FALSE

\* cancel.is_cancelled()
is_cancelled == cancel

\* A test of the candidate's gas limit alone.
ExceedsGasLimit_tx_only(gas_used, tx_gas_limit, block_gas_limit) ==
    tx_gas_limit > block_gas_limit

\* The test of line 254.
ExceedsGasLimit(gas_used, tx_gas_limit, block_gas_limit) ==
    gas_used + tx_gas_limit > block_gas_limit

\* An off-by-one test: a transaction that would fill the block exactly is
\* refused.
ExceedsBlobCap_at_cap(blob_count, tx_blob_count, cap) ==
    blob_count + tx_blob_count >= cap

\* A test of the candidate's blob count alone.
ExceedsBlobCap_tx_only(blob_count, tx_blob_count, cap) ==
    tx_blob_count > cap

\* The test of line 288.
ExceedsBlobCap(blob_count, tx_blob_count, cap) ==
    blob_count + tx_blob_count > cap

\* A collection that takes a new side-car at its front.
push_sidecar_variant_front(sidecars, scheme, id) ==
    IF sidecars.kind = "Empty" THEN [kind |-> scheme, items |-> <<id>>]
    ELSE IF sidecars.kind = scheme THEN [sidecars EXCEPT !.items = <<id>> \o @]
    ELSE sidecars

\* BlobSidecars::push_sidecar_variant: a side-car joins a collection that is
\* empty or of its scheme; one of the other scheme is not added.
push_sidecar_variant(sidecars, scheme, id) ==
    IF sidecars.kind = "Empty" THEN [kind |-> scheme, items |-> <<id>>]
    ELSE IF sidecars.kind = scheme THEN [sidecars EXCEPT !.items = Append(@, id)]
    ELSE sidecars

\* A request list attached whatever the fork.
then_some_requests_always(is_prague) == "Some"

\* chain_spec.is_prague_active_at_timestamp(attributes.timestamp())
\*     .then_some(execution_result.requests)
then_some_requests(is_prague) == IF is_prague THEN "Some" ELSE "None"

\* The outcomes of default_load_payload.
NoOutcome == [kind |-> None, payload |-> NoneOpt, fees |-> NoneOpt, cached_reads |-> FALSE]
ErrOutcome(e) == [NoOutcome EXCEPT !.kind = "Err:" \o e]
\* A cancelled build that hands out what it had accumulated.
CancelledOutcome_partial ==
    [NoOutcome EXCEPT !.kind = "Cancelled",
                      !.payload = Some([fees |-> total_fees, requests |-> "None",
                                        sidecars |-> blob_sidecars,
                                        transactions |-> executed])]

CancelledOutcome == [NoOutcome EXCEPT !.kind = "Cancelled"]
AbortedOutcome(fees) ==
    [NoOutcome EXCEPT !.kind = "Aborted", !.fees = Some(fees), !.cached_reads = TRUE]
BetterOutcome(payload) ==
    [NoOutcome EXCEPT !.kind = "Better", !.payload = Some(payload), !.cached_reads = TRUE]

\* The gas limits of candidates; the block gas limit. The pool admits no
\* transaction whose gas limit is above the block's, so the u64 sum of line
\* 254 stays far below 2^64 and is modelled without wrap-around.
TxGasLimits == 1..MaxTxGas
BlockGasLimit == MaxTxGas + 1

\* The blob counts of candidates (0: not a blob transaction).
TxBlobCounts == {0, 1, LOAD_MAX_BLOB_COUNT - 1}

\* The encoded lengths of candidates: a small one, and one that fills the block
\* up to the estimate's allowance for the header.
TxLengths == {1, MAX_RLP_BLOCK_SIZE - 1026}

\* The encoded lengths of a sealed block's header.
HeaderLengths == {600, 2000}

\* What pool.get_blob answers for a blob transaction.
SidecarAnswers == {"missing", "Eip4844", "Eip7594", "error"}

\* What builder.execute_transaction answers.
ExecutionAnswers == {"ok", "nonce_too_low", "invalid", "fatal"}

\* The build's arguments and the chain spec's answers at the attributes' timestamp.
BuildEnvs ==
    [parent_timestamp : {1},
     timestamp : {1, 2},
     prev_randao : {LOAD_PREVRANDAO, B256Zero},
     withdrawals_length : {1},
     block_gas_limit : {BlockGasLimit},
     blob_params : {NoneOpt, Some(SmallBlobCap), Some(LOAD_MAX_BLOB_COUNT),
                    Some(2 * LOAD_MAX_BLOB_COUNT)},
     is_osaka : BOOLEAN]

\* args.best_payload (its fees) and is_prague_active_at_timestamp are read
\* at lines 377 and 385 only: their values are drawn when they are read.
SealArgs ==
    [best_payload : {NoneOpt, Some(1)},
     is_prague : BOOLEAN]

InitBuild ==
    /\ env \in BuildEnvs
    /\ seal_args = NoneOpt
    /\ bpc = "start"
    /\ cancel = FALSE
    /\ cancelled_at = -1
    /\ cur = 0
    /\ offered = 0
    /\ skip_blobs = FALSE
    /\ marks = <<>>
    /\ executed = <<>>
    /\ max_blob_count = 0
    /\ cumulative_gas_used = 0
    /\ block_blob_count = 0
    /\ block_transactions_rlp_length = 0
    /\ total_fees = 0
    /\ blob_sidecars = [kind |-> "Empty", items |-> <<>>]
    /\ outcome = NoOutcome

loopVars ==
    <<skip_blobs, marks, executed, cumulative_gas_used, block_blob_count,
      block_transactions_rlp_length, total_fees, blob_sidecars>>

\* The job's cancellation signal is raised (by the payload job, at any time).
Cancel ==
    /\ bpc # "done"
    /\ ~cancel
    /\ cancel' = TRUE
    /\ cancelled_at' = offered
    /\ UNCHANGED <<notBuild, env, seal_args, bpc, cur, offered, max_blob_count, loopVars, outcome>>

\* The build returns.
Return(result) ==
    /\ outcome' = result
    /\ bpc' = "done"

\* Lines 192-251: the attributes are validated, then the state is opened, the
\* block builder made and the pre-execution changes applied (each may fail),
\* and the blob cap computed.
BuildStart ==
    /\ bpc = "start"
    /\ LET valid == validate_payload_attributes(env.parent_timestamp, env)
       IN  IF valid # Ok
           THEN /\ Return(ErrOutcome(valid))
                /\ UNCHANGED max_blob_count
           ELSE \E failed \in BOOLEAN :
                   IF failed
                   THEN /\ Return(ErrOutcome("init"))
                        /\ UNCHANGED max_blob_count
                   ELSE /\ max_blob_count' = compute_load_blob_cap(env.blob_params)
                        /\ bpc' = "loop"
                        /\ UNCHANGED outcome
    /\ UNCHANGED <<notBuild, env, seal_args, cancel, cancelled_at, cur, offered, loopVars>>

\* A source that never reports its end: the loop waits on it.
SourceExhausted_never ==
    /\ bpc = "loop"
    /\ bpc' = "loop"
    /\ UNCHANGED <<notBuild, env, seal_args, cancel, cancelled_at, cur, offered, max_blob_count, loopVars, outcome>>

\* best_txs.next() returns None: the loop ends.
SourceExhausted ==
    /\ bpc = "loop"
    /\ bpc' = "seal"
    /\ UNCHANGED <<notBuild, env, seal_args, cancel, cancelled_at, cur, offered, max_blob_count, loopVars, outcome>>

\* Lines 253-264: best_txs.next() returns a candidate; the gas test, then the
\* poll of the cancellation signal.
NextCandidate(held, tx_gas_limit) ==
    /\ bpc = "loop"
    /\ offered < held
    /\ offered' = offered + 1
    /\ IF ExceedsGasLimit(cumulative_gas_used, tx_gas_limit, env.block_gas_limit)
       THEN /\ marks' = Append(marks, [tx |-> offered + 1, reason |-> "ExceedsGasLimit"])
            /\ UNCHANGED <<bpc, cur, outcome>>
       ELSE IF is_cancelled
       THEN /\ Return(CancelledOutcome)
            /\ UNCHANGED <<cur, marks>>
       ELSE /\ cur' = tx_gas_limit
            /\ bpc' = "candidate"
            /\ UNCHANGED <<marks, outcome>>
    /\ UNCHANGED <<notBuild, env, seal_args, cancel, cancelled_at, max_blob_count, skip_blobs, executed,
                   cumulative_gas_used, block_blob_count,
                   block_transactions_rlp_length, total_fees, blob_sidecars>>

\* The source of the bounded build holds MaxCandidates candidates.
LoopHead(tx_gas_limit) == NextCandidate(MaxCandidates, tx_gas_limit)

\* A rejection that ends the build with the candidate's error.
MarkInvalid_returns_error(reason) ==
    /\ Return(ErrOutcome(reason))
    /\ UNCHANGED <<cur, loopVars>>

\* continue after best_txs.mark_invalid(&pool_tx, reason)
MarkInvalid(reason) ==
    /\ marks' = Append(marks, [tx |-> offered, reason |-> reason])
    /\ bpc' = "loop"
    /\ cur' = 0
    /\ UNCHANGED <<skip_blobs, executed, cumulative_gas_used, block_blob_count,
                   block_transactions_rlp_length, total_fees, blob_sidecars, outcome>>

\* continue without mark_invalid
Skip ==
    /\ bpc' = "loop"
    /\ cur' = 0
    /\ UNCHANGED <<loopVars, outcome>>

\* A test that holds one blob short of the cap already.
cap_reached_within_one(blob_count, cap) == blob_count + 1 >= cap

\* Line 359: if block_blob_count == max_blob_count { best_txs.skip_blobs() }
cap_reached(blob_count, cap) == blob_count = cap

\* Lines 357-374: a transaction was executed with gas_used.
Accumulate(tx, sidecar) ==
    /\ executed' = Append(executed, [id |-> offered, blobs |-> tx.blobs, gas_used |-> tx.gas_used])
    /\ block_blob_count' = block_blob_count + tx.blobs
    /\ skip_blobs' = (skip_blobs \/ (tx.blobs > 0
                                      /\ cap_reached(block_blob_count + tx.blobs, max_blob_count)))
    /\ block_transactions_rlp_length' = block_transactions_rlp_length + tx.length
    /\ total_fees' = total_fees + tx.tip * tx.gas_used
    /\ cumulative_gas_used' = cumulative_gas_used + tx.gas_used
    /\ blob_sidecars' = IF sidecar = NoneOpt THEN blob_sidecars
                        ELSE push_sidecar_variant(blob_sidecars, sidecar[1], offered)
    /\ bpc' = "loop"
    /\ cur' = 0
    /\ UNCHANGED <<marks, outcome>>

\* A test that accepts a side-car of either scheme.
blob_sidecar_result_any_scheme(answer, is_osaka) ==
    IF answer = "missing" THEN "MissingEip4844BlobSidecar" ELSE "ok"

\* The side-car of a blob transaction, lines 307-325: "ok" or the error.
blob_sidecar_result(answer, is_osaka) ==
    IF answer = "missing" THEN "MissingEip4844BlobSidecar"
    ELSE IF is_osaka
         THEN IF answer = "Eip7594" THEN "ok" ELSE "UnexpectedEip4844SidecarAfterOsaka"
         ELSE IF answer = "Eip4844" THEN "ok" ELSE "UnexpectedEip7594SidecarBeforeOsaka"

\* An execution whose every invalid-transaction error marks the candidate.
Execute_marks_nonce_too_low(tx, sidecar) ==
    IF tx.exec = "ok" THEN Accumulate(tx, sidecar)
    ELSE IF tx.exec \in {"nonce_too_low", "invalid"} THEN MarkInvalid("TxTypeNotSupported")
    ELSE /\ Return(ErrOutcome("evm"))
         /\ UNCHANGED <<cur, loopVars>>

\* Lines 336-374: execute_transaction and what follows.
Execute(tx, sidecar) ==
    IF tx.exec = "ok" THEN Accumulate(tx, sidecar)
    ELSE IF tx.exec = "nonce_too_low" THEN Skip
    ELSE IF tx.exec = "invalid" THEN MarkInvalid("TxTypeNotSupported")
    ELSE /\ Return(ErrOutcome("evm"))
         /\ UNCHANGED <<cur, loopVars>>

\* Lines 266-375: the rest of an iteration, for the candidate that passed the
\* gas test and the poll.
Examine(tx) ==
    LET estimated_block_size_with_tx ==
            block_transactions_rlp_length + tx.length + env.withdrawals_length + 1024
    IN  IF env.is_osaka /\ estimated_block_size_with_tx > MAX_RLP_BLOCK_SIZE
        THEN MarkInvalid("OversizedData")
        ELSE IF tx.blobs > 0
        THEN IF ExceedsBlobCap(block_blob_count, tx.blobs, max_blob_count)
             THEN MarkInvalid("TooManyEip4844Blobs")
             ELSE IF tx.sidecar = "error"
             THEN /\ Return(ErrOutcome("get_blob"))
                  /\ UNCHANGED <<cur, loopVars>>
             ELSE IF blob_sidecar_result(tx.sidecar, env.is_osaka) # "ok"
             THEN MarkInvalid(blob_sidecar_result(tx.sidecar, env.is_osaka))
             ELSE Execute(tx, Some(tx.sidecar))
        ELSE Execute(tx, NoneOpt)

\* The candidates with gas limit g that the source may hold: after skip_blobs
\* it offers no blob transaction; an execution uses at most the gas limit.
\* Fields the loop never reads for a candidate are left at one value: the
\* side-car of a transaction without blobs, and the gas used and the tip of a
\* transaction whose execution fails.
CandidatesWith(g) ==
    {tx \in [gas_limit : {g},
             gas_used : 1..g,
             blobs : IF skip_blobs THEN {0} ELSE TxBlobCounts,
             length : TxLengths,
             tip : {0, 1},
             sidecar : SidecarAnswers,
             exec : ExecutionAnswers] :
        /\ tx.blobs = 0 => tx.sidecar = "missing"
        /\ tx.exec # "ok" => (tx.gas_used = 1 /\ tx.tip = 0)}

Candidate ==
    /\ bpc = "candidate"
    /\ \E tx \in CandidatesWith(cur) : Examine(tx)
    /\ UNCHANGED <<notBuild, env, seal_args, cancel, cancelled_at, offered, max_blob_count>>

\* Lines 377-406: the fees are compared, the block is finished (which may
\* fail) and its size checked.
Seal ==
    /\ bpc = "seal"
    /\ \E args \in SealArgs :
          /\ seal_args' = Some(args)
          /\ IF ~is_better_payload(args.best_payload, total_fees)
             THEN Return(AbortedOutcome(total_fees))
             ELSE \E finished \in BOOLEAN, header_length \in HeaderLengths :
                     LET rlp_length == header_length + block_transactions_rlp_length
                                         + env.withdrawals_length
                         payload == [fees |-> total_fees,
                                     requests |-> then_some_requests(args.is_prague),
                                     sidecars |-> blob_sidecars,
                                     transactions |-> executed]
                     IN  IF ~finished THEN Return(ErrOutcome("finish"))
                         ELSE IF env.is_osaka /\ rlp_length > MAX_RLP_BLOCK_SIZE
                         THEN Return(ErrOutcome("BlockTooLarge"))
                         ELSE Return(BetterOutcome(payload))
    /\ UNCHANGED <<notBuild, env, cancel, cancelled_at, cur, offered, max_blob_count, loopVars>>

BuildStep ==
    \/ Cancel
    \/ BuildStart
    \/ SourceExhausted
    \/ \E g \in TxGasLimits : LoopHead(g)
    \/ Candidate
    \/ Seal

\* The builder's variables while another subsystem runs.
IdleBuild ==
    /\ env = NoneOpt
    /\ seal_args = NoneOpt
    /\ bpc = "done"
    /\ cancel = FALSE
    /\ cancelled_at = -1
    /\ cur = 0
    /\ offered = 0
    /\ skip_blobs = FALSE
    /\ marks = <<>>
    /\ executed = <<>>
    /\ max_blob_count = 0
    /\ cumulative_gas_used = 0
    /\ block_blob_count = 0
    /\ block_transactions_rlp_length = 0
    /\ total_fees = 0
    /\ blob_sidecars = [kind |-> "Empty", items |-> <<>>]
    /\ outcome = NoOutcome

\* The attribute variables while another subsystem runs.
IdleAttrs ==
    /\ rpcAttrs = NoneOpt
    /\ parentTs = 0
    /\ attrs = NoneOpt
    /\ attrsBy = None
    /\ ctorResult = None
    /\ validation = None

\* The gate's variables while another subsystem runs.
IdleGate ==
    /\ limit = [m \in GuardedMethod |-> 0]
    /\ inflight = [m \in GuardedMethod |-> 0]
    /\ gauge = [m \in GuardedMethod |-> 0]
    /\ accepted = [m \in GuardedMethod |-> 0]
    /\ rejected = [m \in GuardedMethod |-> 0]
    /\ req = [r \in Requests |-> IdleRequest]
    /\ calls = 0

\* ===================================================================
\* engine/validator.rs and engine/rpc.rs: inbound engine messages
\* ===================================================================

\* Results of the engine API are sequences of strings: <<>> while the call has
\* not returned, <<"Ok", ...>>, or the error's variants.
NoResult == <<>>
OkResult == <<"Ok">>
\* EngineObjectValidationError::InvalidParams(message)
InvalidParams(message) == <<"EngineObjectValidationError", "InvalidParams", message>>
\* EngineApiError::BlobRequestTooLarge { len }; the length is not kept.
BlobRequestTooLarge == <<"EngineApiError", "BlobRequestTooLarge">>
\* Ok(PayloadStatus) of the consensus engine.
PayloadStatus(status) == <<"Ok", status>>

IsInvalidParams(result) == Len(result) = 3 /\ result[2] = "InvalidParams"

\* EngineApiMessageVersion::V1 .. V5
EngineApiMessageVersion == 1..5

\* The lengths of the versioned hash lists of the inputs; the checks read the
\* length of the list only.
HashCounts == {0, LOAD_MAX_BLOB_COUNT, LOAD_MAX_BLOB_COUNT + 1}

\* ExecutionPayloadSidecar as LoadExecutionData builds it: none() for V1 and V2
\* payloads, v3(CancunPayloadFields) and v4(CancunPayloadFields,
\* PraguePayloadFields). cancun holds the number of versioned hashes.
SidecarNone == [cancun |-> NoneOpt, prague |-> NoneOpt]
SidecarV3(hashes) == [cancun |-> Some(hashes), prague |-> NoneOpt]
SidecarV4(hashes) == [cancun |-> Some(hashes), prague |-> Some("Requests")]

Sidecars ==
    {SidecarNone} \cup {SidecarV3(n) : n \in HashCounts} \cup {SidecarV4(n) : n \in HashCounts}

\* payload.sidecar().versioned_hashes(): the length of the list, if there is one.
sidecar_versioned_hashes(sidecar) == sidecar.cancun
\* payload.sidecar().requests()
sidecar_requests(sidecar) == sidecar.prague

\* PayloadOrAttributes: an execution payload with its sidecar, or payload
\* attributes (which have no sidecar).
PayloadOrAttributes ==
    [tag : {"ExecutionPayload"}, prev_randao : B256Values,
     timestamp : 0..MaxTimestamp, sidecar : Sidecars]
    \cup
    [tag : {"PayloadAttributes"}, prev_randao : B256Values,
     timestamp : 0..MaxTimestamp, sidecar : {SidecarNone}]

\* The chain spec's Prague activation: never, or from a timestamp on.
PragueTimes == {NoneOpt} \cup {Some(t) : t \in 0..MaxTimestamp}

\* What reth_payload_primitives::validate_version_specific_fields answers for
\* a message that has passed Load's checks.
UpstreamAnswers ==
    {OkResult,
     <<"EngineObjectValidationError", "UnsupportedFork">>,
     InvalidParams("upstream")}

\* What the consensus engine answers for a payload handed to it.
EngineStatuses == {"VALID", "SYNCING"}

\* chain_spec.is_prague_active_at_timestamp(timestamp)
is_prague_active_at_timestamp(prague_time, timestamp) ==
    prague_time # NoneOpt /\ timestamp >= prague_time[1]

\* payload.payload().prev_randao().as_slice() != LOAD_PREVRANDAO
check_prev_randao(prev_randao) ==
    IF prev_randao # LOAD_PREVRANDAO
    THEN InvalidParams("prev_randao must be constant 0x01 for Load")
    ELSE OkResult

\* if let Some(versioned_hashes) = payload.sidecar().versioned_hashes()
check_versioned_hashes(sidecar) ==
    IF sidecar_versioned_hashes(sidecar) # NoneOpt
       /\ sidecar_versioned_hashes(sidecar)[1] > LOAD_MAX_BLOB_COUNT
    THEN InvalidParams("too many blob versioned hashes")
    ELSE OkResult

\* if !prague_active && payload.sidecar().requests().is_some()
check_prague_fields_ignores_fork(prague_active, sidecar) ==
    IF sidecar_requests(sidecar) # NoneOpt
    THEN InvalidParams("Prague payload fields not active at timestamp")
    ELSE OkResult

check_prague_fields(prague_active, sidecar) ==
    IF ~prague_active /\ sidecar_requests(sidecar) # NoneOpt
    THEN InvalidParams("Prague payload fields not active at timestamp")
    ELSE OkResult

\* LoadEngineValidator::validate_version_specific_fields. The version is read
\* by the upstream function only, whose answer is upstream.
validate_version_specific_fields(prague_time, version, payload_or_attrs, upstream) ==
    LET prague_active ==
            is_prague_active_at_timestamp(prague_time, payload_or_attrs.timestamp)
        is_payload == payload_or_attrs.tag = "ExecutionPayload"
        is_attrs == payload_or_attrs.tag = "PayloadAttributes"
    IN  IF is_payload /\ check_prev_randao(payload_or_attrs.prev_randao) # OkResult
        THEN check_prev_randao(payload_or_attrs.prev_randao)
        ELSE IF is_payload /\ check_versioned_hashes(payload_or_attrs.sidecar) # OkResult
        THEN check_versioned_hashes(payload_or_attrs.sidecar)
        ELSE IF is_payload
                /\ check_prague_fields(prague_active, payload_or_attrs.sidecar) # OkResult
        THEN check_prague_fields(prague_active, payload_or_attrs.sidecar)
        ELSE IF is_attrs /\ check_prev_randao(payload_or_attrs.prev_randao) # OkResult
        THEN check_prev_randao(payload_or_attrs.prev_randao)
        ELSE upstream

\* rpc.rs validate_blob_request
validate_blob_request(len) ==
    IF len > LOAD_MAX_BLOB_COUNT THEN BlobRequestTooLarge ELSE OkResult

\* rpc.rs ensure_load_prev_randao
ensure_load_prev_randao(prev_randao) ==
    IF prev_randao = LOAD_PREVRANDAO
    THEN OkResult
    ELSE InvalidParams("prev_randao must be constant 0x01 for Load")

\* self.inner.new_payload_vN_metered(payload): the upstream EngineApi runs the
\* engine validator on the payload with the handler's version, and hands the
\* payload to the consensus engine if the validator accepts it.
inner_new_payload(sub, version) ==
    LET checked ==
            validate_version_specific_fields(sub.prague_time, version, sub.message,
                                             sub.upstream)
    IN  IF checked # OkResult THEN checked ELSE PayloadStatus(sub.status)

\* new_payload_v1 and new_payload_v2: LoadExecutionData::from(payload) has no
\* sidecar; the handler makes no check of its own.
new_payload_v1(sub) == inner_new_payload(sub, 1)

new_payload_v2(sub) == inner_new_payload(sub, 2)

\* new_payload_v3 and new_payload_v4: the count of versioned hashes, then the
\* randomness, then the inner API.
new_payload_v3(sub) ==
    IF validate_blob_request(sidecar_versioned_hashes(sub.message.sidecar)[1]) # OkResult
    THEN validate_blob_request(sidecar_versioned_hashes(sub.message.sidecar)[1])
    ELSE IF ensure_load_prev_randao(sub.message.prev_randao) # OkResult
    THEN ensure_load_prev_randao(sub.message.prev_randao)
    ELSE inner_new_payload(sub, 3)

new_payload_v4(sub) ==
    IF validate_blob_request(sidecar_versioned_hashes(sub.message.sidecar)[1]) # OkResult
    THEN validate_blob_request(sidecar_versioned_hashes(sub.message.sidecar)[1])
    ELSE IF ensure_load_prev_randao(sub.message.prev_randao) # OkResult
    THEN ensure_load_prev_randao(sub.message.prev_randao)
    ELSE inner_new_payload(sub, 4)

\* The engine messages of the inputs.
Submissions ==
    [prague_time : PragueTimes, version : EngineApiMessageVersion,
     message : PayloadOrAttributes, upstream : UpstreamAnswers,
     status : EngineStatuses]

\* One inbound message; no check has run.
InitInbound ==
    /\ submission \in Submissions
    /\ validator_result = NoResult
    /\ new_payload_result = NoResult

\* The inbound variables while another subsystem runs.
IdleInbound ==
    /\ submission = NoneOpt
    /\ validator_result = NoResult
    /\ new_payload_result = NoResult

\* The engine validator is called on the message with the message's version.
ValidateVersionSpecificFields ==
    /\ validator_result = NoResult
    /\ validator_result' =
            validate_version_specific_fields(submission.prague_time, submission.version,
                                             submission.message, submission.upstream)
    /\ UNCHANGED <<submission, new_payload_result, notInbound>>

\* A V1 or V2 payload (no sidecar) arrives at engine_newPayloadV1 / V2.
NewPayloadV1 ==
    /\ new_payload_result = NoResult
    /\ submission.version = 1
    /\ submission.message.tag = "ExecutionPayload"
    /\ submission.message.sidecar = SidecarNone
    /\ new_payload_result' = new_payload_v1(submission)
    /\ UNCHANGED <<submission, validator_result, notInbound>>

NewPayloadV2 ==
    /\ new_payload_result = NoResult
    /\ submission.version = 2
    /\ submission.message.tag = "ExecutionPayload"
    /\ submission.message.sidecar = SidecarNone
    /\ new_payload_result' = new_payload_v2(submission)
    /\ UNCHANGED <<submission, validator_result, notInbound>>

\* A V3 payload with its versioned hashes arrives at engine_newPayloadV3.
NewPayloadV3 ==
    /\ new_payload_result = NoResult
    /\ submission.version = 3
    /\ submission.message.tag = "ExecutionPayload"
    /\ submission.message.sidecar.cancun # NoneOpt
    /\ submission.message.sidecar.prague = NoneOpt
    /\ new_payload_result' = new_payload_v3(submission)
    /\ UNCHANGED <<submission, validator_result, notInbound>>

\* A V3 payload with its versioned hashes and execution requests arrives at
\* engine_newPayloadV4.
NewPayloadV4 ==
    /\ new_payload_result = NoResult
    /\ submission.version = 4
    /\ submission.message.tag = "ExecutionPayload"
    /\ submission.message.sidecar.cancun # NoneOpt
    /\ submission.message.sidecar.prague # NoneOpt
    /\ new_payload_result' = new_payload_v4(submission)
    /\ UNCHANGED <<submission, validator_result, notInbound>>

InboundStep ==
    \/ ValidateVersionSpecificFields
    \/ NewPayloadV1
    \/ NewPayloadV2
    \/ NewPayloadV3
    \/ NewPayloadV4

\* ===================================================================
\* engine/payload.rs: LoadBuiltPayload to its wire envelopes
\* ===================================================================

\* The numbers of sidecars of the built payloads of the inputs.
SidecarCounts ==
    {0, 1, LOAD_MAX_BLOB_COUNT - 1, LOAD_MAX_BLOB_COUNT, LOAD_MAX_BLOB_COUNT + 1,
     2 * LOAD_MAX_BLOB_COUNT}

\* BlobSidecars: Empty, or Eip4844 / Eip7594 with a vector of sidecars, one for
\* each blob transaction. len is the length of the vector, blobs the number
\* of blobs its sidecars carry together (each carries 0..MaxSidecarBlobs).
BlobSidecars ==
    {[kind |-> "Empty", len |-> 0, blobs |-> 0]}
    \cup
    {[kind |-> k, len |-> n, blobs |-> n * b] :
        k \in {"Eip4844", "Eip7594"}, n \in SidecarCounts, b \in 0..MaxSidecarBlobs}

\* BuiltPayloadConversionError
ConversionError(version, error) ==
    [ok |-> FALSE, version |-> version, error |-> error, bundle |-> <<>>]

\* An envelope; bundle is <<>> for the envelopes that have no blobs bundle,
\* or the number of sidecars and of blobs the bundle was made of.
Envelope(version, bundle) ==
    [ok |-> TRUE, version |-> version, error |-> "", bundle |-> bundle]

\* BlobsBundleV1::from(sidecars), BlobsBundleV1::empty()
BlobsBundle(sidecars) == <<sidecars.len, sidecars.blobs>>

\* LoadBuiltPayload::guard_sidecars
guard_sidecars_scheme_only(sidecars, max_blobs) ==
    IF sidecars.kind = "Eip7594" THEN "UnexpectedEip7594Sidecars" ELSE Ok

guard_sidecars(sidecars, max_blobs) ==
    IF sidecars.kind = "Eip7594" THEN "UnexpectedEip7594Sidecars"
    ELSE IF sidecars.kind = "Eip4844" /\ sidecars.len > max_blobs
    THEN "UnexpectedEip4844Sidecars"
    ELSE Ok

\* From<LoadBuiltPayload> for ExecutionPayloadV1 and ExecutionPayloadEnvelopeV2:
\* the upstream conversions, which carry no blobs bundle.
into_v1(sidecars) == Envelope(1, <<>>)

into_v2(sidecars) == Envelope(2, <<>>)

\* TryFrom<LoadBuiltPayload> for ExecutionPayloadEnvelopeV3
try_into_v3(sidecars) ==
    IF guard_sidecars(sidecars, LOAD_MAX_BLOB_COUNT) # Ok
    THEN ConversionError(3, guard_sidecars(sidecars, LOAD_MAX_BLOB_COUNT))
    ELSE Envelope(3, BlobsBundle(sidecars))

\* ExecutionPayloadEnvelopeV4::try_from(value.inner): the upstream conversion
\* takes Empty and Eip4844 sidecars whole and refuses Eip7594 sidecars.
eth_try_into_v4(sidecars) ==
    IF sidecars.kind = "Eip7594"
    THEN ConversionError(4, "UnexpectedEip7594Sidecars")
    ELSE Envelope(4, BlobsBundle(sidecars))

\* ExecutionPayloadEnvelopeV5::try_from(value.inner): the upstream conversion
\* takes Empty and Eip7594 sidecars whole and refuses Eip4844 sidecars.
eth_try_into_v5(sidecars) ==
    IF sidecars.kind = "Eip4844"
    THEN ConversionError(5, "UnexpectedEip4844Sidecars")
    ELSE Envelope(5, BlobsBundle(sidecars))

\* TryFrom<LoadBuiltPayload> for ExecutionPayloadEnvelopeV4
try_into_v4(sidecars) ==
    IF guard_sidecars(sidecars, LOAD_MAX_BLOB_COUNT) # Ok
    THEN ConversionError(4, guard_sidecars(sidecars, LOAD_MAX_BLOB_COUNT))
    ELSE eth_try_into_v4(sidecars)

\* TryFrom<LoadBuiltPayload> for ExecutionPayloadEnvelopeV5
try_into_v5(sidecars) ==
    IF guard_sidecars(sidecars, LOAD_MAX_BLOB_COUNT) # Ok
    THEN ConversionError(5, guard_sidecars(sidecars, LOAD_MAX_BLOB_COUNT))
    ELSE eth_try_into_v5(sidecars)

\* One built payload; nothing has been converted.
InitConvert ==
    /\ built \in BlobSidecars
    /\ envelope = NoneOpt

\* The conversion variables while another subsystem runs.
IdleConvert ==
    /\ built = NoneOpt
    /\ envelope = NoneOpt

\* A clone of the built payload is converted; the payload itself stays as it is.
ConvertV1 ==
    /\ envelope' = Some(into_v1(built))
    /\ UNCHANGED <<built, notConvert>>

ConvertV2 ==
    /\ envelope' = Some(into_v2(built))
    /\ UNCHANGED <<built, notConvert>>

ConvertV3 ==
    /\ envelope' = Some(try_into_v3(built))
    /\ UNCHANGED <<built, notConvert>>

ConvertV4 ==
    /\ envelope' = Some(try_into_v4(built))
    /\ UNCHANGED <<built, notConvert>>

ConvertV5 ==
    /\ envelope' = Some(try_into_v5(built))
    /\ UNCHANGED <<built, notConvert>>

ConvertStep ==
    \/ ConvertV1
    \/ ConvertV2
    \/ ConvertV3
    \/ ConvertV4
    \/ ConvertV5

\* ===================================================================
\* the build over the pool of a Load chain
\* (src/src/evm/mod.rs, src/src/pool/mod.rs, src/tests/blob_happy.rs)
\* ===================================================================

LOAD_TARGET_BLOB_COUNT == 512
LOAD_MAX_BLOBS_PER_TX == 32
LOAD_BLOB_UPDATE_FRACTION == 5007716

\* The numbers of transactions the stress tests submit, each of
\* LOAD_MAX_BLOBS_PER_TX blobs: one that fills the block, one that overflows it.
NearFullTxs == 32
ScenarioTxs == 33

\* alloy's BlobParams::cancun() and BlobParams::osaka().
BlobParams_cancun ==
    [target_blob_count |-> 3, max_blob_count |-> 6, max_blobs_per_tx |-> 6,
     update_fraction |-> 3338477, min_blob_fee |-> 1, blob_base_cost |-> 0]
BlobParams_osaka ==
    [target_blob_count |-> 6, max_blob_count |-> 9, max_blobs_per_tx |-> 6,
     update_fraction |-> 5007716, min_blob_fee |-> 1, blob_base_cost |-> 8192]

\* from_genesis: the parameters installed for Cancun and Prague.
load_blob_params ==
    [target_blob_count |-> LOAD_TARGET_BLOB_COUNT,
     max_blob_count |-> LOAD_MAX_BLOB_COUNT,
     max_blobs_per_tx |-> LOAD_MAX_BLOBS_PER_TX,
     update_fraction |-> LOAD_BLOB_UPDATE_FRACTION,
     min_blob_fee |-> BlobParams_cancun.min_blob_fee,
     blob_base_cost |-> BlobParams_cancun.blob_base_cost]

\* LoadEvmConfig::load_blob_params_at, given the chain spec's answer at the
\* timestamp: four fields are overridden, the others inherited.
load_blob_params_at(chain_params) ==
    LET params == IF chain_params = NoneOpt THEN BlobParams_cancun ELSE chain_params[1]
    IN  [params EXCEPT !.target_blob_count = LOAD_TARGET_BLOB_COUNT,
                       !.max_blob_count = LOAD_MAX_BLOB_COUNT,
                       !.max_blobs_per_tx = LOAD_MAX_BLOBS_PER_TX,
                       !.update_fraction = LOAD_BLOB_UPDATE_FRACTION]

\* An environment whose per-transaction cap is the block's cap.
cfg_max_blobs_per_tx_block_cap(chain_params) ==
    load_blob_params_at(chain_params).max_blob_count

\* enforce_load_blob_env: env.cfg_env.max_blobs_per_tx.
cfg_max_blobs_per_tx(chain_params) ==
    load_blob_params_at(chain_params).max_blobs_per_tx

\* builder.execute_transaction on a sound blob transaction under that
\* environment: revm refuses more blobs than cfg_env.max_blobs_per_tx with
\* an invalid-transaction error.
execute_blob_transaction(blobs, chain_params) ==
    IF blobs > cfg_max_blobs_per_tx(chain_params) THEN "invalid" ELSE "ok"

\* The pool's validator (eth_builder over the node's chain spec) admits a
\* blob transaction of at most the chain's max_blobs_per_tx blobs.
pool_admits(blobs, chain_params) ==
    chain_params # NoneOpt /\ blobs <= chain_params[1].max_blobs_per_tx

\* A build before Osaka on a chain made by from_genesis, over a source of
\* source_txs equal transactions of source_blobs blobs each. via_pool: the
\* transactions went through the pool's validator; otherwise the source hands
\* them to the loop as they are.
SelectEnvs ==
    {[parent_timestamp |-> 1,
      timestamp |-> 2,
      prev_randao |-> LOAD_PREVRANDAO,
      withdrawals_length |-> 1,
      block_gas_limit |-> ScenarioTxs,
      blob_params |-> Some(load_blob_params.max_blob_count),
      is_osaka |-> FALSE,
      chain_blob_params |-> Some(load_blob_params),
      source_txs |-> n,
      source_blobs |-> b,
      via_pool |-> v] :
        n \in {NearFullTxs, ScenarioTxs},
        b \in {1, LOAD_MAX_BLOBS_PER_TX, LOAD_MAX_BLOBS_PER_TX + 1},
        v \in BOOLEAN}

\* The number of candidates the source holds.
SourceSize ==
    IF env.via_pool /\ ~pool_admits(env.source_blobs, env.chain_blob_params)
    THEN 0
    ELSE env.source_txs

InitSelect ==
    /\ env \in SelectEnvs
    /\ seal_args = NoneOpt
    /\ bpc = "start"
    /\ cancel = FALSE
    /\ cancelled_at = -1
    /\ cur = 0
    /\ offered = 0
    /\ skip_blobs = FALSE
    /\ marks = <<>>
    /\ executed = <<>>
    /\ max_blob_count = 0
    /\ cumulative_gas_used = 0
    /\ block_blob_count = 0
    /\ block_transactions_rlp_length = 0
    /\ total_fees = 0
    /\ blob_sidecars = [kind |-> "Empty", items |-> <<>>]
    /\ outcome = NoOutcome

\* best_txs.next() returns the next transaction of the source, of gas limit 1.
\* Every transaction of the source is a blob transaction: after skip_blobs
\* the source returns none.
SelectHead ==
    /\ ~skip_blobs
    /\ NextCandidate(SourceSize, 1)

\* best_txs.next() returns None.
SelectExhausted ==
    /\ (skip_blobs \/ offered = SourceSize)
    /\ SourceExhausted

\* The rest of the iteration for a transaction of the source: its side-car is
\* in the pool, and it is executed under the Load environment.
SelectCandidate ==
    /\ bpc = "candidate"
    /\ \E tip \in {0, 1} :
          Examine([gas_limit |-> cur,
                   gas_used |-> cur,
                   blobs |-> env.source_blobs,
                   length |-> 1,
                   tip |-> tip,
                   sidecar |-> "Eip4844",
                   exec |-> execute_blob_transaction(env.source_blobs,
                                                     env.chain_blob_params)])
    /\ UNCHANGED <<notBuild, env, seal_args, cancel, cancelled_at, offered, max_blob_count>>

SelectStep ==
    \/ BuildStart
    \/ SelectHead
    \/ SelectExhausted
    \/ SelectCandidate
    \/ Seal

\* ===================================================================
\* the chain specification (src/src/chainspec/mod.rs)
\* ===================================================================

\* The pre-Cancun fork blocks of the genesis configuration that
\* validate_genesis walks, in its order.
PreCancunForks ==
    <<"homestead_block", "dao_fork_block", "eip150_block", "eip155_block",
      "eip158_block", "byzantium_block", "constantinople_block", "petersburg_block",
      "istanbul_block", "muir_glacier_block", "berlin_block", "london_block",
      "arrow_glacier_block", "gray_glacier_block">>

PreCancunForkNames == {PreCancunForks[i] : i \in 1..Len(PreCancunForks)}

\* An activation point of a genesis description: unspecified, 0, or later.
Activations == {NoneOpt, Some(0), Some(1)}

\* The pre-Cancun blocks of the descriptions examined: all unspecified, all at
\* 0, one fork later than 0 (the others unspecified), one fork unspecified
\* (the others at 0).
PreCancunInputs ==
    {[f \in PreCancunForkNames |-> NoneOpt], [f \in PreCancunForkNames |-> Some(0)]}
    \cup {[f \in PreCancunForkNames |-> IF f = g THEN Some(1) ELSE NoneOpt] :
            g \in PreCancunForkNames}
    \cup {[f \in PreCancunForkNames |-> IF f = g THEN NoneOpt ELSE Some(0)] :
            g \in PreCancunForkNames}

\* The genesis descriptions examined. blob_schedule is the blob schedule the
\* description carries for Cancun and Prague.
Geneses ==
    [cancun_time : Activations,
     terminal_total_difficulty : Activations,
     terminal_total_difficulty_passed : BOOLEAN,
     merge_netsplit_block : Activations,
     pre_cancun : PreCancunInputs,
     shanghai_time : Activations,
     prague_time : Activations,
     osaka_time : {NoneOpt, Some(0), Some(2)},
     blob_schedule : {NoneOpt, Some(BlobParams_cancun)}]

\* The timestamps at which the chain specification is asked.
QueryTimestamps == {0, 1, 2}

\* A check that lets every specified activation point through.
conflicts_with_genesis_never(activation) == FALSE

\* if let Some(x) = field { if x != 0 { bail } }
conflicts_with_genesis(activation) ==
    activation # NoneOpt /\ activation[1] # 0

\* A normalisation that leaves an unspecified activation point unspecified.
activate_at_genesis_keep(activation) == activation

\* else { field = Some(0) }
activate_at_genesis(activation) ==
    IF activation = NoneOpt THEN Some(0) ELSE activation

\* A normalisation that leaves the flag as the description has it.
merge_guardrail_keep(terminal_total_difficulty_passed) ==
    terminal_total_difficulty_passed

\* Lines 102-104: if !terminal_total_difficulty_passed { ... = true }
merge_guardrail(terminal_total_difficulty_passed) ==
    IF ~terminal_total_difficulty_passed THEN TRUE ELSE terminal_total_difficulty_passed

Bail(message, config) == [error |-> message, genesis |-> config]

\* LoadChainSpec::validate_genesis: the first failing check's error, or Ok
\* and the normalised configuration.
validate_genesis(config) ==
    IF config.cancun_time # Some(0) THEN Bail("cancunTime", config)
    ELSE IF conflicts_with_genesis(config.terminal_total_difficulty)
    THEN Bail("terminalTotalDifficulty", config)
    ELSE
    LET g1 == [config EXCEPT
                 !.terminal_total_difficulty = activate_at_genesis(@),
                 !.terminal_total_difficulty_passed = merge_guardrail(@)]
    IN  IF conflicts_with_genesis(g1.merge_netsplit_block)
        THEN Bail("merge_netsplit_block", g1)
        ELSE
        LET g2 == [g1 EXCEPT !.merge_netsplit_block = activate_at_genesis(@)]
        IN  IF \E f \in PreCancunForkNames : conflicts_with_genesis(g2.pre_cancun[f])
            THEN Bail("pre-Cancun", g2)
            ELSE
            LET g3 == [g2 EXCEPT !.pre_cancun =
                          [f \in PreCancunForkNames |-> activate_at_genesis(@[f])]]
            IN  IF conflicts_with_genesis(g3.shanghai_time)
                THEN Bail("shanghaiTime", g3)
                ELSE
                LET g4 == [g3 EXCEPT !.shanghai_time = activate_at_genesis(@)]
                IN  IF conflicts_with_genesis(g4.prague_time)
                    THEN Bail("pragueTime", g4)
                    ELSE [error |-> Ok,
                          genesis |-> [g4 EXCEPT !.prague_time = activate_at_genesis(@)]]

\* LoadChainSpec::from_genesis: the error, or the chain specification made of
\* the normalised configuration with the blob parameters replaced.
from_genesis(config) ==
    LET validated == validate_genesis(config)
    IN  IF validated.error # Ok
        THEN [ok |-> FALSE, error |-> validated.error, config |-> NoneOpt,
              blob_params |-> NoneOpt]
        ELSE [ok |-> TRUE, error |-> Ok, config |-> Some(validated.genesis),
              blob_params |-> Some([cancun |-> load_blob_params,
                                    prague |-> load_blob_params,
                                    osaka |-> BlobParams_osaka,
                                    scheduled |-> <<>>])]

\* A fork of the inner chain specification is active at a timestamp when the
\* normalised configuration gives it an activation time not after it.
is_fork_active_at_timestamp(activation, timestamp) ==
    activation # NoneOpt /\ activation[1] <= timestamp

\* A lookup that answers the Cancun entry whenever Cancun is active.
blob_params_at_timestamp_cancun(spec, timestamp) ==
    IF is_fork_active_at_timestamp(spec.config[1].cancun_time, timestamp)
    THEN Some(spec.blob_params[1].cancun)
    ELSE NoneOpt

\* LoadChainSpec::blob_params_at_timestamp delegates to the inner chain
\* specification: a scheduled entry if one is active (there is none), else
\* the entry of the latest active fork among Osaka, Prague and Cancun.
blob_params_at_timestamp(spec, timestamp) ==
    IF is_fork_active_at_timestamp(spec.config[1].osaka_time, timestamp)
    THEN Some(spec.blob_params[1].osaka)
    ELSE IF is_fork_active_at_timestamp(spec.config[1].prague_time, timestamp)
    THEN Some(spec.blob_params[1].prague)
    ELSE IF is_fork_active_at_timestamp(spec.config[1].cancun_time, timestamp)
    THEN Some(spec.blob_params[1].cancun)
    ELSE NoneOpt

InitGenesis ==
    /\ genesis \in Geneses
    /\ chain_spec = NoneOpt
    /\ blob_query = NoneOpt

\* The chain-specification variables while another subsystem runs.
IdleGenesis ==
    /\ genesis = NoneOpt
    /\ chain_spec = NoneOpt
    /\ blob_query = NoneOpt

\* The chain specification is derived from the genesis description.
FromGenesis ==
    /\ chain_spec = NoneOpt
    /\ chain_spec' = Some(from_genesis(genesis))
    /\ UNCHANGED <<notGenesis, genesis, blob_query>>

\* The derived chain specification is asked for the blob parameters at a
\* timestamp, and LoadEvmConfig computes its own from the answer.
BlobParamsAtTimestamp ==
    /\ chain_spec # NoneOpt
    /\ chain_spec[1].ok
    /\ \E timestamp \in QueryTimestamps :
          LET params == blob_params_at_timestamp(chain_spec[1], timestamp)
          IN  blob_query' = Some([timestamp |-> timestamp,
                                  chain |-> params,
                                  evm |-> load_blob_params_at(params)])
    /\ UNCHANGED <<notGenesis, genesis, chain_spec>>

GenesisStep ==
    \/ FromGenesis
    \/ BlobParamsAtTimestamp

\* ===================================================================
\* blob retrieval (src/src/engine/rpc.rs)
\* ===================================================================

\* The codes of the JSON-RPC errors that EngineApiError converts into.
REQUEST_TOO_LARGE_CODE == -38004
UNSUPPORTED_FORK_CODE == -38005
INTERNAL_ERROR_CODE == -32603

BlobsErr(code) == [ok |-> FALSE, code |-> code, value |-> "error"]
BlobsOk(value) == [ok |-> TRUE, code |-> 0, value |-> value]

\* What the pool answers to get_blobs_for_versioned_hashes_v*: every blob,
\* none of them, or a blob store error.
PoolAnswers == {"all", "none", "error"}

\* The requests examined: the call, the number of versioned hashes, whether
\* Osaka is active at the wall-clock time, whether the node is syncing, and
\* what the pool would answer.
BlobRequests ==
    [version : {1, 2, 3},
     len : HashCounts,
     osaka_active : BOOLEAN,
     is_syncing : BOOLEAN,
     pool : PoolAnswers]

\* The request was answered without the pool.
WithoutPool(result) ==
    /\ get_blobs_result' = Some(result)
    /\ UNCHANGED <<pool_queries, blob_metrics>>

\* The pool is asked; hits and misses are recorded for an answer. none tells
\* what the call returns when the pool has none of the blobs.
AskPool(none) ==
    /\ pool_queries' = pool_queries + 1
    /\ IF blob_request.pool = "error"
       THEN /\ get_blobs_result' = Some(BlobsErr(INTERNAL_ERROR_CODE))
            /\ UNCHANGED blob_metrics
       ELSE LET hits == IF blob_request.pool = "all" THEN blob_request.len ELSE 0
            IN  /\ blob_metrics' = [hits |-> blob_metrics.hits + hits,
                                    misses |-> blob_metrics.misses + blob_request.len - hits]
                /\ get_blobs_result' =
                      Some(BlobsOk(IF blob_request.pool = "all" THEN "blobs" ELSE none))

\* A request validation that lets a request of any size through.
get_blobs_size_check_none(len) == OkResult

\* if let Err(err) = validate_blob_request(&versioned_hashes) { return Err(err.into()) }
get_blobs_size_check(len) == validate_blob_request(len)

\* Checks that test the size of the request before the fork.
gated_request_checks_size_first(osaka_active, len) ==
    IF get_blobs_size_check(len) # OkResult THEN REQUEST_TOO_LARGE_CODE
    ELSE IF ~osaka_active THEN UNSUPPORTED_FORK_CODE
    ELSE 0

\* The head of get_blobs_v2 and get_blobs_v3: the code of the error returned
\* by the fork check or, after it, by the size check; 0 when both pass.
gated_request_checks(osaka_active, len) ==
    IF ~osaka_active THEN UNSUPPORTED_FORK_CODE
    ELSE IF get_blobs_size_check(len) # OkResult THEN REQUEST_TOO_LARGE_CODE
    ELSE 0

\* LoadEngineApi::get_blobs_v1
GetBlobsV1 ==
    /\ get_blobs_result = NoneOpt
    /\ blob_request.version = 1
    /\ IF get_blobs_size_check(blob_request.len) # OkResult
       THEN WithoutPool(BlobsErr(REQUEST_TOO_LARGE_CODE))
       ELSE AskPool("entries of None")
    /\ UNCHANGED <<notBlobs, blob_request>>

\* LoadEngineApi::get_blobs_v2
GetBlobsV2 ==
    /\ get_blobs_result = NoneOpt
    /\ blob_request.version = 2
    /\ LET refused == gated_request_checks(blob_request.osaka_active, blob_request.len)
       IN  IF refused # 0
           THEN WithoutPool(BlobsErr(refused))
           ELSE AskPool("None")
    /\ UNCHANGED <<notBlobs, blob_request>>

\* LoadEngineApi::get_blobs_v3
GetBlobsV3 ==
    /\ get_blobs_result = NoneOpt
    /\ blob_request.version = 3
    /\ LET refused == gated_request_checks(blob_request.osaka_active, blob_request.len)
       IN  IF refused # 0
           THEN WithoutPool(BlobsErr(refused))
           ELSE IF blob_request.is_syncing
           THEN WithoutPool(BlobsOk("None"))
           ELSE AskPool("entries of None")
    /\ UNCHANGED <<notBlobs, blob_request>>

InitBlobs ==
    /\ blob_request \in BlobRequests
    /\ pool_queries = 0
    /\ blob_metrics = [hits |-> 0, misses |-> 0]
    /\ get_blobs_result = NoneOpt

\* The blob retrieval variables while another subsystem runs.
IdleBlobs ==
    /\ blob_request = NoneOpt
    /\ pool_queries = 0
    /\ blob_metrics = [hits |-> 0, misses |-> 0]
    /\ get_blobs_result = NoneOpt

BlobsStep ==
    \/ GetBlobsV1
    \/ GetBlobsV2
    \/ GetBlobsV3

\* ===================================================================
\* the observed build (src/src/engine/builder.rs)
\* ===================================================================

\* No candidate has been examined yet.
InitExamine == last_tx = NoneOpt

\* The observation while another subsystem runs, or a build is not observed.
IdleExamine == last_tx = NoneOpt

\* The loop body of Candidate, with the candidate it examined, its place in
\* the source and the loop's variables before the iteration kept.
CandidateObserved ==
    /\ bpc = "candidate"
    /\ \E tx \in CandidatesWith(cur) :
          /\ Examine(tx)
          /\ last_tx' = Some([tx |-> tx,
                               id |-> offered,
                               before |-> [cumulative_gas_used |-> cumulative_gas_used,
                                           block_blob_count |-> block_blob_count,
                                           block_transactions_rlp_length |->
                                               block_transactions_rlp_length,
                                           total_fees |-> total_fees,
                                           blob_sidecars |-> blob_sidecars,
                                           skip_blobs |-> skip_blobs,
                                           marks |-> marks,
                                           executed |-> executed]])
    /\ UNCHANGED <<notExamine, env, seal_args, cancel, cancelled_at, offered, max_blob_count>>

ExamineStep ==
    \/ Cancel
    \/ BuildStart
    \/ SourceExhausted
    \/ \E g \in TxGasLimits : LoopHead(g)
    \/ CandidateObserved
    \/ Seal

\* ===================================================================
\* specifications
\* ===================================================================

\* The gate starts; nothing else runs.
StartGate == InitGate /\ IdleAttrs /\ IdleBuild /\ IdleBatch /\ IdleInbound /\ IdleConvert /\ IdleGenesis /\ IdleBlobs /\ IdleExamine

NextGate == GateStep

SpecGate == StartGate /\ [][NextGate]_vars

NextAttrs == AttrsStep

\* The attribute checks start; nothing else runs.
StartAttrs == InitAttrs /\ IdleGate /\ IdleBuild /\ IdleBatch /\ IdleInbound /\ IdleConvert /\ IdleGenesis /\ IdleBlobs /\ IdleExamine

SpecAttrs == StartAttrs /\ [][NextAttrs]_vars

NextBuild == BuildStep

\* A build starts; nothing else runs.
StartBuild == InitBuild /\ IdleGate /\ IdleAttrs /\ IdleBatch /\ IdleInbound /\ IdleConvert /\ IdleGenesis /\ IdleBlobs /\ IdleExamine

SpecBuild == StartBuild /\ [][NextBuild]_vars

\* The build is a synchronous function: once called it keeps taking its next
\* step. The cancellation signal may or may not be raised.
BuildProgress ==
    \/ BuildStart
    \/ SourceExhausted
    \/ \E g \in TxGasLimits : LoopHead(g)
    \/ Candidate
    \/ Seal

SpecBuildLive == StartBuild /\ [][NextBuild]_vars /\ WF_vars(BuildProgress)

\* A batch starts beside an idle gate; nothing else runs.
StartBatch == InitGate /\ InitBatch /\ IdleAttrs /\ IdleBuild /\ IdleInbound /\ IdleConvert /\ IdleGenesis /\ IdleBlobs /\ IdleExamine

NextBatch == BatchStep \/ RivalCall \/ CallProgress

SpecBatch == StartBatch /\ [][NextBatch]_vars

\* An engine message arrives; nothing else runs.
StartInbound == InitInbound /\ IdleGate /\ IdleAttrs /\ IdleBuild /\ IdleBatch /\ IdleConvert /\ IdleGenesis /\ IdleBlobs /\ IdleExamine

NextInbound == InboundStep

SpecInbound == StartInbound /\ [][NextInbound]_vars

\* A built payload is converted; nothing else runs.
StartConvert == InitConvert /\ IdleGate /\ IdleAttrs /\ IdleBuild /\ IdleBatch /\ IdleInbound /\ IdleGenesis /\ IdleBlobs /\ IdleExamine

NextConvert == ConvertStep

SpecConvert == StartConvert /\ [][NextConvert]_vars

\* A build over the pool of a Load chain starts; nothing else runs.
StartSelect == InitSelect /\ IdleGate /\ IdleAttrs /\ IdleBatch /\ IdleInbound /\ IdleConvert /\ IdleGenesis /\ IdleBlobs /\ IdleExamine

NextSelect == SelectStep

SpecSelect == StartSelect /\ [][NextSelect]_vars

\* A chain specification is derived; nothing else runs.
StartGenesis == InitGenesis /\ IdleGate /\ IdleAttrs /\ IdleBuild /\ IdleBatch /\ IdleInbound /\ IdleConvert /\ IdleBlobs /\ IdleExamine

NextGenesis == GenesisStep

SpecGenesis == StartGenesis /\ [][NextGenesis]_vars

\* A blob retrieval call arrives; nothing else runs.
StartBlobs == InitBlobs /\ IdleGate /\ IdleAttrs /\ IdleBuild /\ IdleBatch /\ IdleInbound /\ IdleConvert /\ IdleGenesis /\ IdleExamine

NextBlobs == BlobsStep

SpecBlobs == StartBlobs /\ [][NextBlobs]_vars

\* An observed build starts; nothing else runs.
StartExamine == InitBuild /\ InitExamine /\ IdleGate /\ IdleAttrs /\ IdleBatch /\ IdleInbound /\ IdleConvert /\ IdleGenesis /\ IdleBlobs

NextExamine == ExamineStep

SpecExamine == StartExamine /\ [][NextExamine]_vars

\* ===================================================================
\* properties of the admission gate (SpecGate)
\* ===================================================================

\* The permits of method m that try_acquire has granted and that have not been dropped.
PermitsHeld(m) == {r \in Requests : req[r].method = m /\ req[r].permit}

\* C2: for every guarded method with limit L > 0, the in-flight counter never
\* exceeds L, under any interleaving of the loads, the compare-exchanges and
\* the releases of concurrent requests.
C2_InflightWithinLimit ==
    \A m \in GuardedMethod : limit[m] > 0 => inflight[m] <= limit[m]

\* C2 witness: the counter of a method is at its limit while another request,
\* which read a value below the limit, is about to compare-exchange.
C2_Witness ==
    \E m \in GuardedMethod, r \in Requests :
        /\ limit[m] > 0
        /\ inflight[m] = limit[m]
        /\ req[r].method = m
        /\ req[r].pc = "cas"
        /\ req[r].seen < limit[m]

\* C3: in every reachable state the in-flight counter of a method equals the
\* number of permits granted for it and not yet dropped.
C3_InflightCountsPermits ==
    \A m \in GuardedMethod : inflight[m] = Cardinality(PermitsHeld(m))

\* C3 witness: a permit is held on a method after another permit of that
\* method was released, while a third call of the method is in try_acquire.
C3_Witness ==
    \E m \in GuardedMethod, r, q \in Requests :
        /\ r # q
        /\ req[r].method = m /\ req[r].permit /\ req[r].pc = "inner"
        /\ req[q].method = m /\ req[q].pc \in {"load", "cas"}
        /\ accepted[m] = 2
        /\ inflight[m] = 1

\* C4: a request the gate admitted runs release exactly once by the time its
\* future has ended, whether the inner call returned success or an error or
\* the future was dropped; a rejected or unguarded request never runs it.
C4_ReleaseExactlyOnce ==
    \A r \in Requests :
        /\ req[r].releases <= 1
        /\ ~req[r].admitted => req[r].releases = 0
        /\ req[r].pc = "done" =>
              /\ req[r].releases = IF req[r].admitted THEN 1 ELSE 0
              /\ req[r].admitted <=> (req[r].method # None /\ req[r].outcome # "overload")
              /\ ~req[r].permit

\* C4 witness: an admitted request whose future was dropped has released
\* once, beside a request that was rejected and never released.
C4_Witness ==
    \E r, q \in Requests :
        /\ req[r].pc = "done" /\ req[r].admitted
        /\ req[r].outcome = "cancelled" /\ req[r].releases = 1
        /\ req[q].pc = "done" /\ req[q].outcome = "overload" /\ req[q].releases = 0

\* ===================================================================
\* properties of the attribute checks (SpecAttrs)
\* ===================================================================

\* The value 0x00..01, byte by byte: the high 31 bytes are 0 and the last is 1.
IsFixedConstant(v) ==
    /\ v[B256Len] = 1
    /\ \A i \in 1..(B256Len - 1) : v[i] = 0

\* C9: try_new fails if and only if the randomness of the inbound attributes
\* differs from 0x00..01; it then yields no attributes, and otherwise yields
\* them whatever the timestamp, the withdrawals, the beacon root and the
\* version are.
C9_TryNewFailsIffRandomnessDiffers ==
    attrsBy = "try_new" =>
        /\ IsErr(ctorResult) <=> ~IsFixedConstant(rpcAttrs[1].prev_randao)
        /\ ctorResult = Ok <=> IsFixedConstant(rpcAttrs[1].prev_randao)
        /\ attrs # NoneOpt <=> ctorResult = Ok

\* C9 witness: try_new has failed on a value that has the constant's last
\* byte and differs from it in a high byte only.
C9_Witness ==
    /\ attrsBy = "try_new"
    /\ IsErr(ctorResult)
    /\ rpcAttrs[1].prev_randao[B256Len] = 1
    /\ rpcAttrs[1].prev_randao[1] = 1

\* C10 as stated: validate_payload_attributes fails if and only if the
\* timestamp of the attributes is at most the parent's.
C10_FailsIffTimestampNotAfterParent ==
    validation # None =>
        (IsErr(validation) <=> attrs[1].timestamp <= parentTs)

\* C10: validate_payload_attributes fails if and only if the randomness of the
\* attributes differs from 0x00..01 or their timestamp is at most the
\* parent's; it reports the randomness first. For attributes made by try_new,
\* whose randomness is the constant, it fails if and only if the timestamp is
\* at most the parent's.
C10_FailsIffRandomnessOrTimestamp ==
    validation # None =>
        /\ IsErr(validation) <=>
              (~IsFixedConstant(attrs[1].prev_randao) \/ attrs[1].timestamp <= parentTs)
        /\ validation = "InvalidPrevRandao" <=> ~IsFixedConstant(attrs[1].prev_randao)
        /\ validation = "InvalidTimestamp" <=>
              (IsFixedConstant(attrs[1].prev_randao) /\ attrs[1].timestamp <= parentTs)
        /\ attrsBy = "try_new" =>
              (IsErr(validation) <=> attrs[1].timestamp <= parentTs)

\* C10 witness: attributes made by new, with a randomness that is not the
\* constant and a timestamp after the parent's, have failed validation.
C10_Witness ==
    /\ attrsBy = "new"
    /\ validation = "InvalidPrevRandao"
    /\ attrs[1].timestamp > parentTs

\* ===================================================================
\* properties of the build (SpecBuild)
\* ===================================================================

RECURSIVE SumBlobs(_)
\* The blobs carried by a sequence of included transactions.
SumBlobs(txs) == IF txs = <<>> THEN 0 ELSE Head(txs).blobs + SumBlobs(Tail(txs))

RECURSIVE SumGas(_)
\* The gas used by a sequence of included transactions.
SumGas(txs) == IF txs = <<>> THEN 0 ELSE Head(txs).gas_used + SumGas(Tail(txs))

\* The marks made for candidates pulled after the cancellation signal.
MarksAfterSignal == {i \in 1..Len(marks) : cancel /\ marks[i].tx > cancelled_at}

\* The transactions executed for candidates pulled after the signal.
ExecutedAfterSignal == {i \in 1..Len(executed) : cancel /\ executed[i].id > cancelled_at}

\* C1: the blobs of the transactions of a Better payload are at most the cap
\* computed for the block's timestamp, which is at most 1024 and at most the
\* schedule's value when there is one; block_blob_count <= max_blob_count
\* holds after every step of the loop, whatever candidates are offered.
C1_BlobCountWithinCap ==
    /\ max_blob_count <= LOAD_MAX_BLOB_COUNT
    /\ block_blob_count <= max_blob_count
    /\ SumBlobs(executed) <= max_blob_count
    /\ outcome.kind = "Better" =>
          /\ SumBlobs(outcome.payload[1].transactions) <= max_blob_count
          /\ SumBlobs(outcome.payload[1].transactions) <= 1024
          /\ env.blob_params # NoneOpt =>
                SumBlobs(outcome.payload[1].transactions) <= env.blob_params[1]

\* C1 witness: under a schedule that allows more than 1024 blobs, a Better
\* payload carries blobs after a blob transaction was rejected for the cap.
C1_Witness ==
    /\ outcome.kind = "Better"
    /\ env.blob_params = Some(2 * LOAD_MAX_BLOB_COUNT)
    /\ SumBlobs(outcome.payload[1].transactions) > 0
    /\ \E i \in 1..Len(marks) : marks[i].reason = "TooManyEip4844Blobs"

\* C5: the gas used by the transactions of a Better payload is at most the
\* block gas limit; cumulative_gas_used <= block_gas_limit holds after every
\* step of the loop, an execution using at most the candidate's gas limit.
C5_GasWithinLimit ==
    /\ cumulative_gas_used <= env.block_gas_limit
    /\ SumGas(executed) = cumulative_gas_used
    /\ outcome.kind = "Better" =>
          SumGas(outcome.payload[1].transactions) <= env.block_gas_limit

\* C5 witness: a Better payload carries transactions after a candidate was
\* rejected because its gas limit did not fit what was left of the block.
C5_Witness ==
    /\ outcome.kind = "Better"
    /\ SumGas(outcome.payload[1].transactions) > 0
    /\ \E i \in 1..Len(marks) : marks[i].reason = "ExceedsGasLimit"

C7_PayloadOnlyInBetter ==
    /\ outcome.payload # NoneOpt => outcome.kind = "Better"
    /\ outcome.kind = "Better" => outcome.payload # NoneOpt
    /\ bpc = "done" => outcome.kind # None

\* C7 witness: a build that had executed a transaction ended with Cancelled.
C7_Witness ==
    /\ outcome.kind = "Cancelled"
    /\ executed # <<>>

\* C8: a build returns Better only if no best payload is known or its fees
\* are strictly greater than the best payload's; with equal or lower fees it
\* returns Aborted, which carries the fees and the cached reads and is no error.
C8_BetterOnlyIfStrictlyMoreFees ==
    seal_args # NoneOpt =>
        LET best == seal_args[1].best_payload
        IN  /\ outcome.kind = "Better" =>
                  (best = NoneOpt \/ outcome.payload[1].fees > best[1])
            /\ (best # NoneOpt /\ total_fees <= best[1]) =>
                  /\ outcome.kind = "Aborted"
                  /\ outcome.fees = Some(total_fees)
                  /\ outcome.cached_reads
            /\ outcome.kind = "Aborted" => (best # NoneOpt /\ total_fees <= best[1])

\* C8 witness: a build whose fees equal the best payload's, having executed a
\* paying transaction, returned Aborted.
C8_Witness ==
    /\ outcome.kind = "Aborted"
    /\ seal_args # NoneOpt
    /\ seal_args[1].best_payload = Some(total_fees)
    /\ total_fees > 0

\* The build has computed its blob cap (line 249).
CapComputed ==
    \/ bpc \in {"loop", "candidate", "seal"}
    \/ outcome.kind \in {"Better", "Aborted", "Cancelled"}

\* C11: the cap used during selection is the schedule's cap at the block's
\* timestamp when that is at most 1024, and 1024 when the schedule allows
\* more or gives no blob parameters: never above what the schedule allows.
C11_EffectiveCapIsClampedSchedule ==
    CapComputed =>
        /\ env.blob_params = NoneOpt => max_blob_count = 1024
        /\ env.blob_params # NoneOpt =>
              /\ env.blob_params[1] <= 1024 => max_blob_count = env.blob_params[1]
              /\ env.blob_params[1] > 1024 => max_blob_count = 1024
              /\ max_blob_count <= env.blob_params[1]

\* C11 witness: under a schedule that allows 2048 blobs, selection has filled
\* the block up to the cap of 1024.
C11_Witness ==
    /\ CapComputed
    /\ env.blob_params = Some(2 * LOAD_MAX_BLOB_COUNT)
    /\ max_blob_count = 1024
    /\ block_blob_count = max_blob_count
    /\ skip_blobs

\* ===================================================================
\* further properties of the admission gate (SpecGate)
\* ===================================================================

\* C12: try_acquire rejects a request exactly when the in-flight count it
\* reads is at or above the limit: a request is rejected only while as many
\* permits as the limit are held (so the first request of a method with limit
\* 1 is admitted and one arriving while it is in flight is rejected), and a
\* request that reads a count below the limit (after the holder completed) is
\* not rejected.
C12_RejectedOnlyAtLimit ==
    [][\A r \in Requests :
          (req[r].pc = "load" /\ req'[r].pc # "load") =>
              LET m == req[r].method
              IN  /\ req'[r].outcome = "overload" <=> inflight[m] >= limit[m]
                  /\ req'[r].outcome = "overload" =>
                        /\ limit[m] > 0
                        /\ Cardinality(PermitsHeld(m)) >= limit[m]
                        /\ accepted[m] >= limit[m]
                  /\ inflight[m] < limit[m] => req'[r].pc = "cas"]_vars

\* C12 witness: with limit 1, one request of a method was admitted, a second
\* was rejected while the first was in flight, the first completed with an
\* error and released, and a third holds the permit.
C12_Witness ==
    \E m \in GuardedMethod, r, q \in Requests :
        /\ limit[m] = 1
        /\ accepted[m] = 2
        /\ rejected[m] = 1
        /\ req[q].method = m /\ req[q].pc = "done"
        /\ req[q].outcome = "error" /\ req[q].releases = 1
        /\ req[r].method = m /\ req[r].pc = "inner" /\ req[r].permit

\* C13: a request that finds the count at or above the limit is rejected in
\* the step that reads it: it goes from the load to the end without waiting,
\* its response is the overload error with the method's name and configured
\* limit, the inner service is never called for it, it holds no permit and
\* releases nothing, and the in-flight counters are left as they were.
C13_RejectedAtOnceWithOverload ==
    /\ [](\A r \in Requests :
            /\ req[r].outcome = "overload" =>
                  /\ req[r].pc = "done"
                  /\ ~req[r].inner_called
                  /\ ~req[r].permit /\ ~req[r].admitted /\ req[r].releases = 0
                  /\ req[r].error = <<[code |-> -32005,
                                      data |-> [method |-> req[r].name,
                                                limit |-> limit[req[r].method]]]>>
            /\ req[r].error # <<>> => req[r].outcome = "overload")
    /\ [][\A r \in Requests :
            (req[r].pc = "load" /\ inflight[req[r].method] >= limit[req[r].method]
                /\ req'[r] # req[r]) =>
                /\ req'[r].outcome = "overload"
                /\ req'[r].pc = "done"
                /\ inflight' = inflight
                /\ rejected' = [rejected EXCEPT ![req[r].method] = @ + 1]]_vars

\* C13 witness: a request for a method with limit 1 was rejected with the
\* overload error while another request held the method's only permit.
C13_Witness ==
    \E r, q \in Requests :
        /\ req[r].outcome = "overload"
        /\ req[r].error # <<>>
        /\ req[r].error[1].data.limit = 1
        /\ req[r].error[1].data.method = "eth_getTransactionCount"
        /\ req[q].method = req[r].method /\ req[q].permit /\ req[q].pc = "inner"
        /\ inflight[req[r].method] = 1

\* The requests that carry the RPC name of guarded method m.
RequestsNaming(m) ==
    {r \in Requests : req[r].pc # "idle" /\ req[r].name = rpc_method_name(m)}

\* C14: a method with limit 0 is not guarded: its requests are classified as
\* unguarded and go straight to the inner service, they never hold a permit
\* and are never rejected with the overload error, and the method's counter
\* and metrics stay 0, however many of its calls are in flight.
C14_ZeroLimitBypassesGate ==
    \A m \in GuardedMethod :
        limit[m] = 0 =>
            /\ inflight[m] = 0
            /\ accepted[m] = 0
            /\ rejected[m] = 0
            /\ gauge[m] = 0
            /\ \A r \in RequestsNaming(m) :
                  /\ req[r].method = None
                  /\ req[r].pc \in {"inner", "done"}
                  /\ req[r].inner_called
                  /\ req[r].outcome # "overload"
                  /\ req[r].error = <<>>
                  /\ ~req[r].permit /\ req[r].releases = 0

\* C14 witness: two calls of a method with limit 0 are in the inner service
\* at once, after a third call of it has completed.
C14_Witness ==
    \E m \in GuardedMethod :
        /\ limit[m] = 0
        /\ calls = 3
        /\ \A r \in Requests : r \in RequestsNaming(m) /\ req[r].pc = "inner"

\* C16: a step changes the in-flight counter of at most one method, and only
\* a request of that method that is at its compare-exchange or in its release
\* changes it; whether a request is rejected depends on its own method's
\* counter and limit alone, so a request of a method below its limit goes on
\* to the compare-exchange whatever the other methods' counters are.
C16_MethodsAreIndependent ==
    [][/\ \A m \in GuardedMethod :
             inflight'[m] # inflight[m] =>
                /\ \E r \in Requests :
                      /\ req[r].method = m
                      /\ req[r].pc \in {"cas", "release", "released"}
                      /\ req'[r] # req[r]
                /\ \A n \in GuardedMethod \ {m} : inflight'[n] = inflight[n]
       /\ \A r \in Requests :
             (req[r].pc = "load" /\ req'[r] # req[r]) =>
                LET m == req[r].method
                IN  /\ req'[r].outcome = "overload" <=> inflight[m] >= limit[m]
                    /\ inflight' = inflight]_vars

\* C16 witness: one method is at its limit and has rejected a request, while
\* a request of another method, called after that, holds a permit of its own.
C16_Witness ==
    \E r, q \in Requests :
        /\ req[r].permit /\ req[r].pc = "inner"
        /\ inflight[req[r].method] = limit[req[r].method]
        /\ rejected[req[r].method] = 1
        /\ req[q].permit /\ req[q].pc = "inner"
        /\ req[q].method # req[r].method
        /\ rejected[req[q].method] = 0
        /\ calls = 3

\* ===================================================================
\* properties of batches (SpecBatch)
\* ===================================================================

\* Entry e is a call of a method that is guarded under the configured limits.
GuardedEntry(e) ==
    /\ e.kind = "call"
    /\ from_rpc_method(e.name) # None
    /\ limit[from_rpc_method(e.name)] > 0

\* The batch's call future holds a result that is not in processed.
SlotPending == batch_pc = "call" \/ batch_out = "dropped"

\* The admissions and rejections of method m made for entries of the batch.
BatchAccepted(m) ==
    Cardinality({i \in 1..Len(processed) :
                    /\ batch[i].kind = "call"
                    /\ from_rpc_method(batch[i].name) = m
                    /\ limit[m] > 0
                    /\ processed[i] \in {"success", "error"}})
        + (IF SlotPending /\ req[BatchSlot].method = m /\ req[BatchSlot].admitted
           THEN 1 ELSE 0)

BatchRejected(m) ==
    Cardinality({i \in 1..Len(processed) :
                    /\ batch[i].kind = "call"
                    /\ from_rpc_method(batch[i].name) = m
                    /\ processed[i] = "overload"})
        + (IF SlotPending /\ req[BatchSlot].method = m /\ req[BatchSlot].outcome = "overload"
           THEN 1 ELSE 0)

\* The admissions and rejections of method m made for the single requests.
SingleAccepted(m) ==
    Cardinality({r \in Requests \ {BatchSlot} : req[r].method = m /\ req[r].admitted})

SingleRejected(m) ==
    Cardinality({r \in Requests \ {BatchSlot} :
                    req[r].method = m /\ req[r].outcome = "overload"})

IsResponse(rp) == rp # "notified"

\* C15 as stated: when a batch with a guarded call has returned (its future
\* was not dropped), every guarded call entry of it was gated.
C15_EveryGuardedEntryGated ==
    (batch_pc = "done" /\ batch_out # "dropped"
        /\ \E i \in 1..Len(batch) : GuardedEntry(batch[i])) =>
        \A i \in 1..Len(batch) : GuardedEntry(batch[i]) => i <= Len(processed)

\* C15: a batch without a guarded call is forwarded whole and touches no
\* counter. In a batch with one, the entries are taken in order; every
\* guarded call entry taken is admitted or rejected on its own, a rejected one
\* yields an overload entry and the next entry is taken; the batch returns one
\* response per call or unparsed entry, unless the response builder refuses
\* an entry for the size limit, which ends the batch with that error and
\* leaves the entries behind it untaken.
C15_BatchGatesEachEntryTaken ==
    /\ batch_pc = "done" =>
          (batch_out = "forwarded" <=> ~\E i \in 1..Len(batch) : GuardedEntry(batch[i]))
    /\ batch_out = "forwarded" =>
          /\ processed = <<>>
          /\ req[BatchSlot] = IdleRequest
    /\ \A m \in GuardedMethod :
          /\ accepted[m] = SingleAccepted(m) + BatchAccepted(m)
          /\ rejected[m] = SingleRejected(m) + BatchRejected(m)
    /\ \A i \in 1..Len(processed) :
          /\ GuardedEntry(batch[i]) => processed[i] \in {"overload", "success", "error"}
          /\ (batch[i].kind = "call" /\ ~GuardedEntry(batch[i])) =>
                processed[i] \in {"success", "error"}
          /\ batch[i].kind = "notification" <=> processed[i] = "notified"
          /\ batch[i].kind = "invalid" <=> processed[i] = "invalid"
    /\ batch_out \in {"batch", "notification"} =>
          /\ Len(processed) = Len(batch)
          /\ batch_rp = SelectSeq(processed, IsResponse)
          /\ batch_out = "notification" <=> batch_rp = <<>>
    /\ batch_out = "too_big" =>
          /\ processed # <<>>
          /\ batch_rp = SelectSeq(SubSeq(processed, 1, Len(processed) - 1), IsResponse)

\* C15 witness: a batch of two calls of one guarded method has returned its
\* responses: the first entry was rejected with the overload error while a
\* single request held the permit, and the second was then admitted.
C15_Witness ==
    /\ batch_out = "batch"
    /\ Len(batch) = 2
    /\ batch[1] = batch[2]
    /\ GuardedEntry(batch[1])
    /\ processed = <<"overload", "success">>
    /\ batch_rp = processed

\* ===================================================================
\* properties of the inbound engine messages (SpecInbound)
\* ===================================================================

\* The message is an execution payload.
IsPayload == submission.message.tag = "ExecutionPayload"

\* The payload declares more versioned hashes than LOAD_MAX_BLOB_COUNT.
TooManyHashes ==
    /\ IsPayload
    /\ submission.message.sidecar.cancun # NoneOpt
    /\ submission.message.sidecar.cancun[1] > LOAD_MAX_BLOB_COUNT

\* The payload's randomness is not the fixed constant.
WrongRandao == IsPayload /\ submission.message.prev_randao # LOAD_PREVRANDAO

\* The payload carries execution requests.
CarriesRequests == IsPayload /\ submission.message.sidecar.prague # NoneOpt

\* Prague is active at the message's timestamp.
PragueActive ==
    /\ submission.prague_time # NoneOpt
    /\ submission.message.timestamp >= submission.prague_time[1]

\* The handler handed the payload to the consensus engine.
Accepted(result) == Len(result) = 2 /\ result[1] = "Ok"

\* The errors of the two checks of the number of versioned hashes.
HashCountErrors == {InvalidParams("too many blob versioned hashes"), BlobRequestTooLarge}

PragueError == InvalidParams("Prague payload fields not active at timestamp")

\* C17: wherever a payload that declares more than 1024 versioned hashes is
\* checked, by the engine validator or by the new_payload handler it arrives
\* at, the answer is an invalid-params validation error and the payload is not
\* accepted; a payload that declares exactly 1024 is not refused for its
\* number of hashes.
C17_OverCapRejectedWithInvalidParams ==
    /\ TooManyHashes =>
          /\ validator_result # NoResult => IsInvalidParams(validator_result)
          /\ new_payload_result # NoResult => IsInvalidParams(new_payload_result)
    /\ (IsPayload /\ submission.message.sidecar.cancun = Some(LOAD_MAX_BLOB_COUNT)) =>
          /\ validator_result \notin HashCountErrors
          /\ new_payload_result \notin HashCountErrors

\* C18: the engine validator, and the new_payload handler in front of it,
\* reject a payload that carries execution requests when Prague is not active
\* at its timestamp; when Prague is active there, or when the payload carries
\* no requests, the Prague check refuses nothing, and a payload that passes
\* the randomness and hash count checks gets the upstream's answer.
C18_PragueFieldsGatedByFork ==
    /\ (CarriesRequests /\ ~PragueActive) =>
          /\ validator_result # NoResult => IsInvalidParams(validator_result)
          /\ (validator_result # NoResult /\ ~WrongRandao /\ ~TooManyHashes)
                => validator_result = PragueError
          /\ ~Accepted(new_payload_result)
    /\ (PragueActive \/ ~CarriesRequests) =>
          /\ validator_result # PragueError
          /\ new_payload_result # PragueError
          /\ (IsPayload /\ validator_result # NoResult /\ ~WrongRandao /\ ~TooManyHashes)
                => validator_result = submission.upstream

\* C18 witness: a V4 payload with the right randomness, 1024 hashes and
\* execution requests, at a timestamp before Prague, was refused by the
\* validator and by new_payload_v4 with the Prague error.
C18_Witness ==
    /\ CarriesRequests
    /\ ~PragueActive
    /\ submission.prague_time # NoneOpt
    /\ submission.message.sidecar.cancun = Some(LOAD_MAX_BLOB_COUNT)
    /\ validator_result = PragueError
    /\ new_payload_result = PragueError

\* C19: wherever an execution payload whose randomness is not the fixed
\* constant is checked, by the engine validator with any message version or
\* by the new_payload handler it arrives at, the answer is an invalid-params
\* validation error, whatever the payload's other fields are.
C19_WrongRandaoRejectedWithInvalidParams ==
    WrongRandao =>
        /\ validator_result # NoResult => IsInvalidParams(validator_result)
        /\ new_payload_result # NoResult => IsInvalidParams(new_payload_result)

\* ===================================================================
\* properties of the envelope conversions (SpecConvert)
\* ===================================================================

WireScheme(version) == IF version = 5 THEN "Eip7594" ELSE "Eip4844"

\* The conversion error that names a scheme.
WrongSchemeError(kind) ==
    IF kind = "Eip7594" THEN "UnexpectedEip7594Sidecars" ELSE "UnexpectedEip4844Sidecars"

\* C21: a conversion to a V3, V4 or V5 envelope succeeds when the sidecar
\* collection is empty, or of the scheme the envelope carries and of at most
\* 1024 sidecars, and fails with the error naming the collection's scheme when
\* the collection is of the other scheme.
C21_ConversionFollowsScheme ==
    envelope # NoneOpt =>
        LET e == envelope[1]
        IN  e.version \in {3, 4, 5} =>
                /\ (\/ built.kind = "Empty"
                    \/ /\ built.kind = WireScheme(e.version)
                       /\ built.len <= LOAD_MAX_BLOB_COUNT) => e.ok
                /\ built.kind \notin {"Empty", WireScheme(e.version)} =>
                      /\ ~e.ok
                      /\ e.error = WrongSchemeError(built.kind)

\* ===================================================================
\* the built payload and the outbound guard (SpecBuild)
\* ===================================================================

\* The sidecar collection of a built payload as guard_sidecars reads it.
SidecarsOf(payload) ==
    [kind |-> payload.sidecars.kind, len |-> Len(payload.sidecars.items), blobs |-> 0]

\* C22: every payload default_load_payload returns as Better, the one built
\* from an empty source included, passes guard_sidecars with the budget of
\* 1024 whether Osaka is active at its timestamp or not, and its attributes
\* pass validate_payload_attributes again.
C22_BetterPassesOutboundGuard ==
    outcome.kind = "Better" =>
        /\ guard_sidecars(SidecarsOf(outcome.payload[1]), LOAD_MAX_BLOB_COUNT) = Ok
        /\ validate_payload_attributes(env.parent_timestamp, env) = Ok

\* C23: a Better payload carries a request list if and only if the chain spec
\* answers that Prague is active at the attributes' timestamp; a build at a
\* timestamp where Prague is not active attaches none, and no other outcome
\* carries a payload that could hold one.
C23_RequestsIffPragueActive ==
    /\ outcome.kind = "Better" =>
          /\ seal_args # NoneOpt
          /\ outcome.payload[1].requests = "Some" <=> seal_args[1].is_prague
          /\ ~seal_args[1].is_prague => outcome.payload[1].requests = "None"
    /\ outcome.kind # "Better" => outcome.payload = NoneOpt

\* C23 witness: a build at a timestamp where Prague is not active has returned
\* a Better payload with executed transactions and no request list.
C23_Witness ==
    /\ outcome.kind = "Better"
    /\ ~seal_args[1].is_prague
    /\ outcome.payload[1].requests = "None"
    /\ Len(outcome.payload[1].transactions) > 0

\* The source holds more 32-blob transactions than fit under the cap.
SurplusOffered ==
    /\ env.source_blobs = LOAD_MAX_BLOBS_PER_TX
    /\ env.source_txs * env.source_blobs > LOAD_MAX_BLOB_COUNT

\* C24: when the source holds more equal 32-blob transactions than fit under
\* the cap of 1024 (33 of them), selection never fails the build (an error can
\* only come from opening the state or finishing the block), no transaction is
\* marked invalid, the loop ends with exactly 1024 blobs in 32 transactions,
\* and a payload that is produced carries exactly 1024 blobs with their 32
\* side-cars: the 33rd transaction is left out.
C24_SurplusSkippedNotBuild ==
    SurplusOffered =>
        /\ outcome.kind \in {None, "Better", "Aborted", "Err:init", "Err:finish"}
        /\ marks = <<>>
        /\ bpc = "seal" => (block_blob_count = LOAD_MAX_BLOB_COUNT /\ Len(executed) = NearFullTxs)
        /\ outcome.kind = "Better" =>
              /\ SumBlobs(outcome.payload[1].transactions) = LOAD_MAX_BLOB_COUNT
              /\ Len(outcome.payload[1].transactions) = NearFullTxs
              /\ Len(outcome.payload[1].sidecars.items) = NearFullTxs

C24_Witness ==
    /\ SurplusOffered
    /\ env.source_txs = ScenarioTxs
    /\ outcome.kind = "Better"
    /\ SumBlobs(outcome.payload[1].transactions) = LOAD_MAX_BLOB_COUNT
    /\ offered = NearFullTxs

\* C25: no executed transaction, and so no transaction of a built payload,
\* carries more than 32 blobs: a source of 33-blob transactions that went
\* through the pool's validator offers nothing to selection, and when the
\* source hands such transactions to the loop all the same, each one is marked
\* invalid and none is included.
C25_PerTxCapHolds ==
    /\ \A i \in 1..Len(executed) : executed[i].blobs <= LOAD_MAX_BLOBS_PER_TX
    /\ outcome.kind = "Better" =>
          \A i \in 1..Len(outcome.payload[1].transactions) :
              outcome.payload[1].transactions[i].blobs <= LOAD_MAX_BLOBS_PER_TX
    /\ (env.via_pool /\ env.source_blobs > LOAD_MAX_BLOBS_PER_TX) => offered = 0
    /\ env.source_blobs > LOAD_MAX_BLOBS_PER_TX =>
          (executed = <<>> /\ \A i \in 1..Len(marks) : marks[i].reason = "TxTypeNotSupported")

C25_Witness ==
    /\ env.source_blobs = LOAD_MAX_BLOBS_PER_TX + 1
    /\ ~env.via_pool
    /\ offered = env.source_txs
    /\ Len(marks) = env.source_txs
    /\ outcome.kind = "Better"
    /\ outcome.payload[1].transactions = <<>>

\* The activation points of a configuration that the network fixes at genesis,
\* Cancun apart.
FixedAtGenesis(config) ==
    {config.terminal_total_difficulty, config.merge_netsplit_block,
     config.shanghai_time, config.prague_time}
    \cup {config.pre_cancun[f] : f \in PreCancunForkNames}

\* x is specified and is not 0.
SpecifiedNonZero(x) == x # NoneOpt /\ x[1] # 0

Derived == chain_spec # NoneOpt

\* C26: from_genesis fails for every genesis description that specifies a
\* non-zero Cancun, Shanghai or Prague time, a non-zero pre-Cancun fork block,
\* a non-zero merge block or a non-zero terminal total difficulty.
C26_NonZeroActivationFails ==
    Derived =>
        ((\/ SpecifiedNonZero(genesis.cancun_time)
          \/ \E x \in FixedAtGenesis(genesis) : SpecifiedNonZero(x))
            => (~chain_spec[1].ok /\ chain_spec[1].error # Ok))

C26_Witness ==
    /\ Derived
    /\ genesis.cancun_time = Some(0)
    /\ genesis.terminal_total_difficulty = Some(0)
    /\ genesis.shanghai_time = Some(0)
    /\ genesis.prague_time = Some(1)
    /\ ~chain_spec[1].ok
    /\ chain_spec[1].error = "pragueTime"

\* Every activation point the network fixes at genesis is at 0 in the derived
\* configuration.
AllAtGenesis(config) ==
    /\ config.cancun_time = Some(0)
    /\ \A x \in FixedAtGenesis(config) : x = Some(0)

\* C27 as stated: a genesis description that specifies no non-zero
\* activation point is accepted, and every fork fixed at genesis, Cancun
\* included, is at 0 in the derived configuration.
C27_UnspecifiedDefaultsToGenesis ==
    Derived =>
        ((/\ ~SpecifiedNonZero(genesis.cancun_time)
          /\ \A x \in FixedAtGenesis(genesis) : ~SpecifiedNonZero(x))
            => (chain_spec[1].ok /\ AllAtGenesis(chain_spec[1].config[1])))

\* C27, amended: a genesis description with Cancun at 0 that specifies no
\* non-zero activation point is accepted, and the terminal total difficulty,
\* the merge block, every pre-Cancun fork block, Shanghai and Prague are at 0
\* in the derived configuration whether they were specified or not; a
\* description that leaves the Cancun time unspecified is refused.
C27_UnspecifiedDefaultsExceptCancun ==
    Derived =>
        /\ (/\ genesis.cancun_time = Some(0)
            /\ \A x \in FixedAtGenesis(genesis) : ~SpecifiedNonZero(x))
              => (chain_spec[1].ok /\ AllAtGenesis(chain_spec[1].config[1]))
        /\ genesis.cancun_time = NoneOpt
              => (~chain_spec[1].ok /\ chain_spec[1].error = "cancunTime")

C27_Witness ==
    /\ Derived
    /\ chain_spec[1].ok
    /\ genesis.terminal_total_difficulty = NoneOpt
    /\ genesis.merge_netsplit_block = NoneOpt
    /\ genesis.shanghai_time = NoneOpt
    /\ genesis.prague_time = NoneOpt
    /\ \A f \in PreCancunForkNames : genesis.pre_cancun[f] = NoneOpt
    /\ AllAtGenesis(chain_spec[1].config[1])

\* Every activation point the description specifies is the same in the
\* derived configuration.
SpecifiedKept(config) ==
    /\ \A field \in {"cancun_time", "terminal_total_difficulty", "merge_netsplit_block",
                     "shanghai_time", "prague_time", "osaka_time"} :
          genesis[field] # NoneOpt => config[field] = genesis[field]
    /\ \A f \in PreCancunForkNames :
          genesis.pre_cancun[f] # NoneOpt => config.pre_cancun[f] = genesis.pre_cancun[f]

\* C28 as stated: a non-zero terminal total difficulty, a non-zero merge
\* block or a false terminal-difficulty-passed flag makes derivation fail, and
\* an accepted description keeps every value it specified, the flag included.
C28_NoSilentChange ==
    Derived =>
        /\ (\/ SpecifiedNonZero(genesis.terminal_total_difficulty)
            \/ SpecifiedNonZero(genesis.merge_netsplit_block)
            \/ ~genesis.terminal_total_difficulty_passed) => ~chain_spec[1].ok
        /\ chain_spec[1].ok =>
              /\ SpecifiedKept(chain_spec[1].config[1])
              /\ chain_spec[1].config[1].terminal_total_difficulty_passed
                    = genesis.terminal_total_difficulty_passed

\* C28, amended: a non-zero terminal total difficulty or merge block makes
\* derivation fail, and an accepted description keeps every activation point
\* it specified (an unspecified Osaka time stays unspecified); the
\* terminal-difficulty-passed flag is not checked but set: it is true in the
\* derived configuration whatever the description says, and a false flag
\* does not make derivation fail.
C28_OnlyPassedFlagIsForced ==
    Derived =>
        /\ (\/ SpecifiedNonZero(genesis.terminal_total_difficulty)
            \/ SpecifiedNonZero(genesis.merge_netsplit_block)) => ~chain_spec[1].ok
        /\ chain_spec[1].ok =>
              /\ SpecifiedKept(chain_spec[1].config[1])
              /\ chain_spec[1].config[1].osaka_time = genesis.osaka_time
              /\ chain_spec[1].config[1].terminal_total_difficulty_passed
        /\ (/\ genesis.cancun_time = Some(0)
            /\ \A x \in FixedAtGenesis(genesis) : ~SpecifiedNonZero(x))
              => chain_spec[1].ok

C28_Witness ==
    /\ Derived
    /\ chain_spec[1].ok
    /\ ~genesis.terminal_total_difficulty_passed
    /\ genesis.terminal_total_difficulty = Some(0)
    /\ genesis.merge_netsplit_block = Some(0)
    /\ chain_spec[1].config[1].terminal_total_difficulty_passed

\* The four parameters the network fixes.
IsLoadBlobParams(params) ==
    /\ params.max_blob_count = LOAD_MAX_BLOB_COUNT
    /\ params.target_blob_count = LOAD_TARGET_BLOB_COUNT
    /\ params.max_blobs_per_tx = LOAD_MAX_BLOBS_PER_TX
    /\ params.update_fraction = LOAD_BLOB_UPDATE_FRACTION

\* C29: for every accepted genesis description and every timestamp, the blob
\* parameters the derived chain specification answers are the network
\* constants (max 1024, target 512, 32 per transaction, update fraction
\* 5007716), whatever blob schedule the description carried.
C29_BlobParamsAreLoadConstants ==
    blob_query # NoneOpt =>
        /\ blob_query[1].chain # NoneOpt
        /\ IsLoadBlobParams(blob_query[1].chain[1])

\* C30 as stated: every blob retrieval call answers a request of more than
\* 1024 versioned hashes with the error code -38004 and without asking the
\* pool, and does not answer a request of exactly 1024 with that code.
C30_OverCapRejectedTooLarge ==
    get_blobs_result # NoneOpt =>
        /\ blob_request.len > LOAD_MAX_BLOB_COUNT =>
              /\ ~get_blobs_result[1].ok
              /\ get_blobs_result[1].code = REQUEST_TOO_LARGE_CODE
              /\ pool_queries = 0
        /\ blob_request.len = LOAD_MAX_BLOB_COUNT =>
              get_blobs_result[1].code # REQUEST_TOO_LARGE_CODE

\* The call is engine_getBlobsV2 or V3 and Osaka is not active at the
\* wall-clock time.
BeforeOsaka == blob_request.version \in {2, 3} /\ ~blob_request.osaka_active

\* C30, amended: every blob retrieval call refuses a request of more than
\* 1024 versioned hashes without asking the pool; the error code is -38004 for
\* engine_getBlobsV1, and for V2 and V3 when Osaka is active, while V2 and V3
\* before Osaka refuse every request, whatever its size, with the
\* unsupported-fork code -38005. No call answers a request of at most 1024
\* hashes with -38004.
C30_OverCapRejectedWithoutPool ==
    get_blobs_result # NoneOpt =>
        /\ blob_request.len > LOAD_MAX_BLOB_COUNT =>
              /\ ~get_blobs_result[1].ok
              /\ pool_queries = 0
              /\ get_blobs_result[1].code =
                    IF BeforeOsaka THEN UNSUPPORTED_FORK_CODE ELSE REQUEST_TOO_LARGE_CODE
        /\ BeforeOsaka =>
              (get_blobs_result[1].code = UNSUPPORTED_FORK_CODE /\ pool_queries = 0)
        /\ blob_request.len <= LOAD_MAX_BLOB_COUNT =>
              get_blobs_result[1].code # REQUEST_TOO_LARGE_CODE

C30_Witness ==
    /\ get_blobs_result # NoneOpt
    /\ blob_request.version = 3
    /\ blob_request.osaka_active
    /\ blob_request.len = LOAD_MAX_BLOB_COUNT + 1
    /\ get_blobs_result[1].code = REQUEST_TOO_LARGE_CODE
    /\ pool_queries = 0

\* C31: before Osaka is active, engine_getBlobsV2 and engine_getBlobsV3 answer
\* every request, of any size, with the unsupported-fork code -38005 and
\* without asking the pool (the fork check comes before the size check);
\* engine_getBlobsV1 never answers with that code, and V2 and V3 do not once
\* Osaka is active.
C31_ForkGateBeforeSizeCheck ==
    get_blobs_result # NoneOpt =>
        /\ BeforeOsaka =>
              /\ ~get_blobs_result[1].ok
              /\ get_blobs_result[1].code = UNSUPPORTED_FORK_CODE
              /\ pool_queries = 0
        /\ ~BeforeOsaka => get_blobs_result[1].code # UNSUPPORTED_FORK_CODE

C31_Witness ==
    /\ get_blobs_result # NoneOpt
    /\ blob_request.version = 2
    /\ ~blob_request.osaka_active
    /\ blob_request.len = LOAD_MAX_BLOB_COUNT + 1
    /\ get_blobs_result[1].code = UNSUPPORTED_FORK_CODE

\* The build's attributes have the constant randomness and a timestamp after
\* the parent's.
AttributesValid ==
    /\ env.prev_randao = LOAD_PREVRANDAO
    /\ env.timestamp > env.parent_timestamp

\* C32: a build whose attributes have another randomness than the constant,
\* or a timestamp not after the parent's, returns the validation error before
\* anything else happens: it never fails on opening the state instead, never
\* computes the blob cap, never pulls, marks or executes a candidate; so a
\* build that is in the selection loop or sealing has valid attributes,
\* whichever constructor made them.
C32_InvalidAttributesNeverReachLoop ==
    /\ ~AttributesValid =>
          /\ bpc \in {"start", "done"}
          /\ outcome.kind \in {None, "Err:InvalidPrevRandao", "Err:InvalidTimestamp"}
          /\ bpc = "done" => outcome.kind # None
          /\ env.prev_randao # LOAD_PREVRANDAO => outcome.kind # "Err:InvalidTimestamp"
          /\ max_blob_count = 0
          /\ offered = 0
          /\ marks = <<>>
          /\ executed = <<>>
    /\ bpc \in {"loop", "candidate", "seal"} => AttributesValid
    /\ outcome.kind \in {"Better", "Aborted", "Cancelled"} => AttributesValid

C32_Witness ==
    /\ env.prev_randao = LOAD_PREVRANDAO
    /\ env.timestamp = env.parent_timestamp
    /\ bpc = "done"
    /\ outcome.kind = "Err:InvalidTimestamp"
    /\ offered = 0

\* ===================================================================
\* properties of the loop body (SpecExamine, SpecBuild)
\* ===================================================================

\* The loop body has just examined a candidate: nothing has happened since.
JustExamined ==
    /\ last_tx # NoneOpt
    /\ last_tx[1].id = offered
    /\ seal_args = NoneOpt
    /\ bpc \in {"loop", "done"}

\* The side-car scheme the fork at the block's timestamp requires.
RequiredScheme == IF env.is_osaka THEN "Eip7594" ELSE "Eip4844"

\* The candidate examined last passed the size estimate.
PassedSize ==
    ~(env.is_osaka /\ last_tx[1].before.block_transactions_rlp_length + last_tx[1].tx.length
                         + env.withdrawals_length + 1024 > MAX_RLP_BLOCK_SIZE)

\* The candidate examined last, a blob transaction, passed the blob cap.
PassedBlobCap ==
    last_tx[1].before.block_blob_count + last_tx[1].tx.blobs <= max_blob_count

\* The candidate examined last was handed to execute_transaction.
ReachedExecution ==
    /\ PassedSize
    /\ last_tx[1].tx.blobs > 0 =>
          (PassedBlobCap /\ last_tx[1].tx.sidecar = RequiredScheme)

\* C33: when executing a candidate fails, a nonce-too-low error leaves the
\* marks and the included transactions as they were and the loop goes on; any
\* other invalid-transaction error adds one mark for the candidate, includes
\* nothing and the loop goes on; every other execution error ends the build
\* with the EVM error and no payload.
C33_ExecutionFailureHandling ==
    (JustExamined /\ ReachedExecution) =>
        /\ last_tx[1].tx.exec = "nonce_too_low" =>
              /\ marks = last_tx[1].before.marks
              /\ executed = last_tx[1].before.executed
              /\ bpc = "loop"
              /\ outcome = NoOutcome
        /\ last_tx[1].tx.exec = "invalid" =>
              /\ marks = Append(last_tx[1].before.marks,
                                [tx |-> last_tx[1].id, reason |-> "TxTypeNotSupported"])
              /\ executed = last_tx[1].before.executed
              /\ bpc = "loop"
              /\ outcome = NoOutcome
        /\ last_tx[1].tx.exec = "fatal" =>
              /\ bpc = "done"
              /\ outcome.kind = "Err:evm"
              /\ outcome.payload = NoneOpt
              /\ marks = last_tx[1].before.marks
              /\ executed = last_tx[1].before.executed

C33_Witness ==
    /\ JustExamined
    /\ ReachedExecution
    /\ last_tx[1].tx.exec = "nonce_too_low"
    /\ last_tx[1].tx.blobs > 0
    /\ last_tx[1].before.executed # <<>>
    /\ marks = <<>>
    /\ bpc = "loop"

\* A blob transaction has been included.
BlobIncluded == \E i \in 1..Len(executed) : executed[i].blobs > 0

\* C34: skip_blobs has been called exactly when an included blob transaction
\* has brought the block's blob count to the effective cap; a blob candidate
\* that would overflow the cap is marked invalid (TooManyEip4844Blobs) and
\* changes neither skip_blobs nor the blob count, and the loop goes on.
C34_SkipBlobsExactlyAtCap ==
    /\ skip_blobs <=> (BlobIncluded /\ block_blob_count = max_blob_count)
    /\ (/\ JustExamined
        /\ PassedSize
        /\ last_tx[1].tx.blobs > 0
        /\ ~PassedBlobCap) =>
            /\ marks = Append(last_tx[1].before.marks,
                              [tx |-> last_tx[1].id, reason |-> "TooManyEip4844Blobs"])
            /\ skip_blobs = last_tx[1].before.skip_blobs
            /\ ~skip_blobs
            /\ block_blob_count = last_tx[1].before.block_blob_count
            /\ bpc = "loop"
            /\ outcome = NoOutcome

\* C34 witness: after a blob candidate was marked invalid for the cap, a
\* smaller blob candidate that fits has been included.
C34_Witness ==
    /\ JustExamined
    /\ last_tx[1].tx.blobs > 0
    /\ Len(executed) = Len(last_tx[1].before.executed) + 1
    /\ \E i \in 1..Len(marks) :
          marks[i].reason = "TooManyEip4844Blobs" /\ marks[i].tx < last_tx[1].id

\* The error of the side-car of the candidate examined last, "ok" if it is
\* of the scheme the fork requires.
SidecarVerdict ==
    IF last_tx[1].tx.sidecar = "missing" THEN "MissingEip4844BlobSidecar"
    ELSE IF last_tx[1].tx.sidecar = RequiredScheme THEN "ok"
    ELSE IF env.is_osaka THEN "UnexpectedEip4844SidecarAfterOsaka"
    ELSE "UnexpectedEip7594SidecarBeforeOsaka"

\* The loop's accumulators are as they were before the last iteration.
AccumulatorsKept ==
    /\ cumulative_gas_used = last_tx[1].before.cumulative_gas_used
    /\ block_blob_count = last_tx[1].before.block_blob_count
    /\ block_transactions_rlp_length = last_tx[1].before.block_transactions_rlp_length
    /\ total_fees = last_tx[1].before.total_fees
    /\ blob_sidecars = last_tx[1].before.blob_sidecars
    /\ executed = last_tx[1].before.executed

\* C35: a blob candidate whose side-car the pool does not have, or whose
\* side-car is not of the scheme required at the block's timestamp (EIP-7594
\* once Osaka is active, EIP-4844 before), is marked invalid with the matching
\* error, is not executed, and the loop goes on; the side-cars retained by a
\* build are all of the required scheme.
C35_SidecarMismatchMarkedNotExecuted ==
    /\ (/\ JustExamined
        /\ PassedSize
        /\ last_tx[1].tx.blobs > 0
        /\ PassedBlobCap
        /\ last_tx[1].tx.sidecar # "error"
        /\ SidecarVerdict # "ok") =>
            /\ marks = Append(last_tx[1].before.marks,
                              [tx |-> last_tx[1].id, reason |-> SidecarVerdict])
            /\ AccumulatorsKept
            /\ bpc = "loop"
            /\ outcome = NoOutcome
    /\ blob_sidecars.kind \in {"Empty", RequiredScheme}
    /\ outcome.kind = "Better" =>
          outcome.payload[1].sidecars.kind \in {"Empty", RequiredScheme}

\* C35 witness: with Osaka active and a side-car retained, a blob candidate
\* with a side-car of the older scheme has been marked invalid.
C35_Witness ==
    /\ JustExamined
    /\ env.is_osaka
    /\ last_tx[1].tx.blobs > 0
    /\ last_tx[1].tx.sidecar = "Eip4844"
    /\ last_tx[1].tx.exec = "ok"
    /\ blob_sidecars.kind = "Eip7594"
    /\ marks # <<>>
    /\ marks[Len(marks)].reason = "UnexpectedEip4844SidecarAfterOsaka"

\* The candidate examined last was rejected: for the size estimate, the blob
\* cap, its side-car, or an invalid-transaction error of its execution.
CandidateRejected ==
    \/ ~PassedSize
    \/ /\ PassedSize
       /\ last_tx[1].tx.blobs > 0
       /\ \/ ~PassedBlobCap
          \/ (PassedBlobCap /\ last_tx[1].tx.sidecar # "error" /\ SidecarVerdict # "ok")
    \/ (ReachedExecution /\ last_tx[1].tx.exec \in {"nonce_too_low", "invalid"})

\* What a rejection in the loop body leaves behind.
RejectionAbsorbed ==
    (JustExamined /\ CandidateRejected) =>
        /\ AccumulatorsKept
        /\ skip_blobs = last_tx[1].before.skip_blobs
        /\ bpc = "loop"
        /\ outcome = NoOutcome
        /\ IF ReachedExecution /\ last_tx[1].tx.exec = "nonce_too_low"
           THEN marks = last_tx[1].before.marks
           ELSE /\ Len(marks) = Len(last_tx[1].before.marks) + 1
                /\ marks[Len(marks)].tx = last_tx[1].id

\* A step of the build: a step that marks a candidate invalid, the gas test
\* of the loop's head included, and every rejection in the loop body.
C36_Step ==
    /\ Len(marks') > Len(marks) =>
          /\ UNCHANGED <<cumulative_gas_used, block_blob_count, block_transactions_rlp_length,
                         total_fees, blob_sidecars, executed, skip_blobs>>
          /\ Len(marks') = Len(marks) + 1
          /\ marks'[Len(marks')].tx = offered'
          /\ marks'[Len(marks')].reason \in
                {"ExceedsGasLimit", "OversizedData", "TooManyEip4844Blobs",
                 "MissingEip4844BlobSidecar", "UnexpectedEip4844SidecarAfterOsaka",
                 "UnexpectedEip7594SidecarBeforeOsaka", "TxTypeNotSupported"}
          /\ bpc' = "loop"
          /\ outcome' = NoOutcome
    /\ RejectionAbsorbed'

\* C36: rejecting one candidate (for gas, size, the blob cap, a missing or
\* mismatched side-car, an invalid-transaction execution error or a nonce too
\* low) leaves cumulative gas, blob count, size estimate, total fees, the
\* retained side-cars and the included transactions unchanged, the loop goes
\* on to the next candidate, and the build has no error outcome.
C36_RejectionKeepsAccumulators == [][C36_Step]_vars

\* C36 witness: after a transaction was included, a candidate has been
\* rejected for the size estimate and the loop goes on.
C36_Witness ==
    /\ JustExamined
    /\ ~PassedSize
    /\ last_tx[1].before.executed # <<>>
    /\ AccumulatorsKept
    /\ marks[Len(marks)].reason = "OversizedData"
    /\ bpc = "loop"

\* The places in the source of the blob transactions among txs, in order.
RECURSIVE BlobIds(_)
BlobIds(txs) ==
    IF txs = <<>> THEN <<>>
    ELSE IF Head(txs).blobs > 0 THEN <<Head(txs).id>> \o BlobIds(Tail(txs))
    ELSE BlobIds(Tail(txs))

\* C37: the retained side-cars are, in inclusion order, exactly one for each
\* included blob transaction, so none belongs to a rejected candidate, and the
\* block's blob count is the sum of the blob counts of the included
\* transactions; this holds during the loop and for every Better payload.
C37_OneSidecarPerIncludedBlobTx ==
    /\ blob_sidecars.items = BlobIds(executed)
    /\ blob_sidecars.kind = "Empty" <=> BlobIds(executed) = <<>>
    /\ block_blob_count = SumBlobs(executed)
    /\ outcome.kind = "Better" =>
          /\ outcome.payload[1].sidecars.items = BlobIds(outcome.payload[1].transactions)
          /\ outcome.payload[1].transactions = executed
          /\ SumBlobs(outcome.payload[1].transactions) = block_blob_count

\* C37 witness: a Better payload with two blob transactions and their two
\* side-cars in inclusion order.
C37_Witness ==
    /\ outcome.kind = "Better"
    /\ outcome.payload[1].sidecars.items = <<1, 2>>
    /\ block_blob_count = LOAD_MAX_BLOB_COUNT

\* ===================================================================
\* termination of the build (SpecBuildLive)
\* ===================================================================

\* The outcomes of a build that has returned.
TerminalOutcomes ==
    {"Better", "Aborted", "Cancelled", "Err:InvalidPrevRandao", "Err:InvalidTimestamp",
     "Err:init", "Err:get_blob", "Err:evm", "Err:finish", "Err:BlockTooLarge"}

\* The candidates examined so far: each was marked invalid or executed at
\* most once, in the order of the source, and none was both.
ExaminedOnce ==
    /\ \A i, j \in 1..Len(marks) : i < j => marks[i].tx < marks[j].tx
    /\ \A i, j \in 1..Len(executed) : i < j => executed[i].id < executed[j].id
    /\ \A i \in 1..Len(marks), j \in 1..Len(executed) : marks[i].tx # executed[j].id
    /\ \A i \in 1..Len(marks) : marks[i].tx \in 1..offered
    /\ \A j \in 1..Len(executed) : executed[j].id \in 1..offered

\* A step of the build: the head of the loop takes the next candidate of the
\* source, the loop body takes none, and a build that has returned stays as
\* it is.
C38_Step ==
    /\ offered' \in {offered, offered + 1}
    /\ (bpc = "loop" /\ bpc' # "seal" /\ <<bpc, marks, outcome>>' # <<bpc, marks, outcome>>)
          => offered' = offered + 1
    /\ bpc # "loop" => offered' = offered
    /\ bpc = "done" => UNCHANGED <<bpc, outcome, offered, marks, executed>>

\* C38: every build over a finite source ends, with exactly one of Better,
\* Aborted, Cancelled or an error, which then stays; each iteration takes one
\* candidate from the source and no candidate is examined twice.
C38_BuildTerminates ==
    /\ <>(bpc = "done")
    /\ [](bpc = "done" <=> outcome.kind \in TerminalOutcomes)
    /\ [](ExaminedOnce /\ offered <= MaxCandidates)
    /\ [][C38_Step]_vars

\* C38 witness: a build that took every candidate of its source, marked one
\* invalid and included another, has returned Better.
C38_Witness ==
    /\ bpc = "done"
    /\ outcome.kind = "Better"
    /\ offered = MaxCandidates
    /\ marks # <<>>
    /\ executed # <<>>

\* ===================================================================
\* release and the in-flight gauge (SpecGate)
\* ===================================================================

\* C39: release runs only for a permit try_acquire granted, on a counter of
\* at least 1: the counter never wraps below zero and the branch of release
\* that stores 0 after an underflow is never taken.
C39_ReleaseNeverUnderflows ==
    /\ \A m \in GuardedMethod : inflight[m] <= NumRequests
    /\ \A r \in Requests :
          /\ ~req[r].stored
          /\ req[r].pc = "release" =>
                /\ req[r].permit /\ req[r].admitted /\ req[r].releases = 0
                /\ inflight[gate(req[r].method)] >= 1
          /\ req[r].pc = "released" => req[r].prev >= 1

\* C39 witness: two permits of one method are being released at once: one
\* release has taken the counter from 2 to 1, the other is about to run.
C39_Witness ==
    \E r, q \in Requests :
        /\ r # q
        /\ req[r].method = req[q].method
        /\ req[r].pc = "released" /\ req[r].prev = 2
        /\ req[q].pc = "release"
        /\ inflight[gate(req[q].method)] = 1

\* No request of the method is in flight, in try_acquire or in release.
Quiescent(m) ==
    \A r \in Requests : req[r].method = m => req[r].pc = "done"

\* C40: once no request of a method is in flight and none is inside
\* try_acquire or release, the gauge last recorded for the method equals its
\* in-flight counter.
C40_GaugeMatchesAtQuiescence ==
    \A m \in GuardedMethod : Quiescent(m) => gauge[m] = inflight[gate(m)]

====
